---- MODULE Spec2Model ----
(***************************************************************************)
(* A model of the tofino register tools: the checked PCI window           *)
(* (src/src/lib/pci.rs), bit-field extraction (src/src/tftool/common.rs),  *)
(* the chip-id decoder (src/crates/tofino/src/fuse.rs) and the register    *)
(* commands and register-tree search (src/crates/tftool/src/lib.rs,        *)
(* src/src/tftool/main.rs).                                                *)
(*                                                                         *)
(* TLC's integers are 32-bit signed, so the u32/u64 arithmetic of the      *)
(* program is modelled at a reduced width: an offset is OffsetBits wide    *)
(* (arithmetic modulo 2^OffsetBits), a register word of get_bits is        *)
(* WordBits wide and its u64 accumulator two words wide.  The chip-id      *)
(* decoder keeps its full 64 bits, held as four 16-bit limbs.              *)
(***************************************************************************)
EXTENDS Integers, Sequences, FiniteSets, TLC

VARIABLES
    len,      \* Pci.len: the length in bytes of the mapped window
    mem,      \* the mapped bytes, as 4-byte words: word index -> value
    build,    \* the build profile: "debug" (overflow checks) or "release"
    regmap,   \* the register tree behind tofino_regs::RegMap, or the stub
    inp,      \* the arguments drawn for a pure function
    out       \* the record of the last operation: its arguments and results

vars == <<len, mem, build, regmap, inp, out>>

----------------------------------------------------------------------------
(* Bounds of the model *)

\* The width, in bits, of a u32 offset in the model (32 in the program).
OffsetBits == 4

\* The largest window length, in bytes, that Init draws.
MaxLen == 8

\* The largest value of a memory word.
MaxVal == 1

U32Mod == 2 ^ OffsetBits

Offsets == 0 .. (U32Mod - 1)

Values == 0 .. MaxVal

\* Window lengths: every length from MaxLen - 4 up to MaxLen, so that lengths
\* that are not a multiple of 4 are covered.
Lens == (MaxLen - 4) .. MaxLen

\* The word indices that lie, wholly or partly, inside the largest window.
MemWords == 0 .. ((MaxLen + 3) \div 4 - 1)

Builds == {"debug", "release"}

\* What an access outside the mapping (undefined behaviour) may produce: a
\* fault that ends the process, or any value.
UbOutcomes == [fault : BOOLEAN, val : Values]

----------------------------------------------------------------------------
(* Pci: src/src/lib/pci.rs *)

\* u32 addition: a debug build panics on overflow, a release build wraps.
AddU32(b, x, y) ==
    IF x + y >= U32Mod
    THEN IF b = "debug" THEN [panic |-> TRUE, v |-> 0]
         ELSE [panic |-> FALSE, v |-> (x + y) % U32Mod]
    ELSE [panic |-> FALSE, v |-> x + y]

\* A plausible slip: the range check made before the alignment check.
get_word_ptr_bounds_first(l, b, offset) ==
    LET sum == AddU32(b, offset, 4) IN
    IF sum.panic THEN [kind |-> "panic", word |-> 0]
    ELSE IF sum.v >= l % U32Mod THEN [kind |-> "outside", word |-> 0]
    ELSE IF offset % 4 # 0 THEN [kind |-> "unaligned", word |-> 0]
    ELSE [kind |-> "ok", word |-> offset \div 4]

\* Pci::get_word_ptr: the alignment check, then the range check
\* `offset + 4 >= self.len as u32`, then the pointer base + (offset >> 2) words.
get_word_ptr(l, b, offset) ==
    IF offset % 4 # 0 THEN [kind |-> "unaligned", word |-> 0]
    ELSE LET sum == AddU32(b, offset, 4) IN
         IF sum.panic THEN [kind |-> "panic", word |-> 0]
         ELSE IF sum.v >= l % U32Mod THEN [kind |-> "outside", word |-> 0]
         ELSE [kind |-> "ok", word |-> offset \div 4]

\* Whether the 4-byte word at word index w lies inside a window of l bytes.
InWindow(l, w) == 4 * w + 4 <= l

\* Pci::read4 on window (l, m): the result kind, the value returned and
\* whether a load was performed.  ub is what a load outside the mapping does.
read4(l, m, b, offset, ub) ==
    LET p == get_word_ptr(l, b, offset) IN
    IF p.kind # "ok" THEN [kind |-> p.kind, val |-> 0, transfer |-> FALSE]
    ELSE IF InWindow(l, p.word)
         THEN [kind |-> "ok", val |-> m[p.word], transfer |-> TRUE]
         ELSE IF ub.fault
              THEN [kind |-> "fault", val |-> 0, transfer |-> TRUE]
              ELSE [kind |-> "ok", val |-> ub.val, transfer |-> TRUE]

\* Pci::write4 on window (l, m): the result kind, the memory afterwards and
\* whether a store was performed.  A store outside the mapping does not change
\* the window.
write4(l, m, b, offset, val, ub) ==
    LET p == get_word_ptr(l, b, offset) IN
    IF p.kind # "ok" THEN [kind |-> p.kind, mem |-> m, transfer |-> FALSE]
    ELSE IF InWindow(l, p.word)
         THEN [kind |-> "ok", mem |-> [m EXCEPT ![p.word] = val],
               transfer |-> TRUE]
         ELSE [kind |-> IF ub.fault THEN "fault" ELSE "ok", mem |-> m,
               transfer |-> TRUE]

\* The outcomes to consider for an access at offset: all of them when the
\* access passes the checks and lies outside the mapping, one otherwise (the
\* outcome is then not used).
UbFor(l, b, offset) ==
    LET p == get_word_ptr(l, b, offset) IN
    IF p.kind = "ok" /\ ~InWindow(l, p.word)
    THEN UbOutcomes
    ELSE {[fault |-> FALSE, val |-> 0]}

\* The words of the window whose value differs between m1 and m2.
Changed(m1, m2) == {w \in MemWords : m1[w] # m2[w]}

\* The stub tofino_regs::RegMap of a build without a register map: every
\* lookup fails.
StubMap == [stub |-> TRUE, n |-> 0, parent |-> <<>>, name |-> <<>>]

NoOp == [op |-> "none"]

NoInp == [fn |-> "none"]

InitPci ==
    /\ len \in Lens
    /\ mem \in [MemWords -> Values]
    /\ build \in Builds
    /\ regmap = StubMap
    /\ inp = NoInp
    /\ out = NoOp

Read4 ==
    \E offset \in Offsets : \E ub \in UbFor(len, build, offset) :
        LET r == read4(len, mem, build, offset, ub) IN
        /\ out' = [op |-> "read4", offset |-> offset, kind |-> r.kind,
                   val |-> r.val, transfer |-> r.transfer, changed |-> {}]
        /\ UNCHANGED <<len, mem, build, regmap, inp>>

Write4 ==
    \E offset \in Offsets, val \in Values :
      \E ub \in UbFor(len, build, offset) :
        LET r == write4(len, mem, build, offset, val, ub) IN
        /\ mem' = r.mem
        /\ out' = [op |-> "write4", offset |-> offset, kind |-> r.kind,
                   val |-> val, transfer |-> r.transfer,
                   changed |-> Changed(mem, r.mem)]
        /\ UNCHANGED <<len, build, regmap, inp>>

NextPci == Read4 \/ Write4

SpecPci == InitPci /\ [][NextPci]_vars

IsPciOp == out.op \in {"read4", "write4"}

\* C1: an aligned offset with offset + 4 > len (as a mathematical integer)
\* makes read4 and write4 fail with the out-of-range error, without a load or
\* store.
C1_OutOfRangeRejected ==
    (IsPciOp /\ out.offset % 4 = 0 /\ out.offset + 4 > len)
        => (out.kind = "outside" /\ ~out.transfer)

\* C2: an unaligned offset makes read4 and write4 fail with the alignment
\* error, without a transfer and with the memory unchanged, whether or not the
\* offset is also out of range.
C2_UnalignedRejected ==
    (IsPciOp /\ out.offset % 4 # 0)
        => (out.kind = "unaligned" /\ ~out.transfer /\ out.changed = {})

\* An unaligned offset that is also out of range was rejected as unaligned.
C2_Witness ==
    /\ IsPciOp
    /\ out.offset % 4 # 0
    /\ out.offset + 4 > len
    /\ out.kind = "unaligned"

\* C3: read4 and write4 succeed for every aligned offset with
\* offset + 4 <= len.
C3_InRangeAccepted ==
    (IsPciOp /\ out.offset % 4 = 0 /\ out.offset + 4 <= len)
        => (out.kind = "ok" /\ out.transfer)

----------------------------------------------------------------------------
(* get_bits: src/src/tftool/common.rs *)

\* The width, in bits, of a register word in the model (32 in the program).
WordBits == 2

\* The u64 accumulator rval is two u32 words wide.
AccWords == 2

AccBits == AccWords * WordBits

\* The longest word list drawn: more words than the accumulator holds, so
\* that ranges wider than the accumulator occur.
MaxWords == 3

WordMod == 2 ^ WordBits

AccMod == 2 ^ AccBits

RECURSIVE SeqsUpTo(_, _)
\* Every sequence over S of length at most n.
SeqsUpTo(S, n) ==
    IF n = 0 THEN {<<>>}
    ELSE LET P == SeqsUpTo(S, n - 1) IN
         P \cup {Append(q, x) : q \in {r \in P : Len(r) = n - 1}, x \in S}

WordLists == SeqsUpTo(0 .. (WordMod - 1), MaxWords)

\* Bit indices: every bit of the longest list.
BitIdx == 0 .. (WordBits * MaxWords - 1)

\* get_bit: bit `bit` of a word.
get_bit(w, bit) == (w \div (2 ^ bit)) % 2

RECURSIVE get_bits_up(_, _, _, _, _)
\* A plausible slip: the bits accumulated from start upwards, which reverses
\* the field.
get_bits_up(regs, idx, end, rval, n) ==
    IF idx > end THEN [panic |-> FALSE, rval |-> rval, n |-> n]
    ELSE LET word == idx \div WordBits
             bit == idx % WordBits
         IN  IF word >= Len(regs)
             THEN [panic |-> TRUE, rval |-> rval, n |-> n]
             ELSE get_bits_up(regs, idx + 1, end,
                      ((rval * 2) % AccMod) + get_bit(regs[word + 1], bit),
                      n + 1)

get_bits_reversed(regs, start, end) == get_bits_up(regs, start, end, 0, 0)

RECURSIVE get_bits_loop(_, _, _, _, _)
\* The loop of get_bits at bit index idx, going down to start: the word and
\* the bit of idx, the index panic of regs[word], the shift of the u64
\* accumulator and the break at idx = 0.  n counts the bits accumulated.
get_bits_loop(regs, start, idx, rval, n) ==
    IF idx < start THEN [panic |-> FALSE, rval |-> rval, n |-> n]
    ELSE LET word == idx \div WordBits
             bit == idx % WordBits
         IN  IF word >= Len(regs)
             THEN [panic |-> TRUE, rval |-> rval, n |-> n]
             ELSE LET r == ((rval * 2) % AccMod) + get_bit(regs[word + 1], bit)
                  IN  IF idx = 0
                      THEN [panic |-> FALSE, rval |-> r, n |-> n + 1]
                      ELSE get_bits_loop(regs, start, idx - 1, r, n + 1)

\* A plausible slip: an end past the words is clamped to their last bit.
get_bits_clamped(regs, start, end) ==
    get_bits_loop(regs, start,
                  IF end >= WordBits * Len(regs)
                  THEN WordBits * Len(regs) - 1 ELSE end, 0, 0)

\* get_bits(regs, start, end): the bits end down to start, most significant
\* first.
get_bits(regs, start, end) == get_bits_loop(regs, start, end, 0, 0)

InitBits ==
    /\ len = MaxLen
    /\ mem = [w \in MemWords |-> 0]
    /\ build = "release"
    /\ regmap = StubMap
    /\ inp \in [fn : {"get_bits"}, regs : WordLists, start : BitIdx,
                end : BitIdx]
    /\ out = NoOp

GetBits ==
    /\ inp.fn = "get_bits"
    /\ out = NoOp
    /\ LET r == get_bits(inp.regs, inp.start, inp.end) IN
       out' = [op |-> "get_bits", panic |-> r.panic, rval |-> r.rval,
               n |-> r.n]
    /\ UNCHANGED <<len, mem, build, regmap, inp>>

NextBits == GetBits

SpecBits == InitBits /\ [][NextBits]_vars

RECURSIVE StreamValue(_)
\* S: the words read as one little-endian number, word i weighing
\* 2^(WordBits * i).
StreamValue(regs) ==
    IF regs = <<>> THEN 0
    ELSE Head(regs) + WordMod * StreamValue(Tail(regs))

\* C4: for start <= end, end inside the words and end - start less than the
\* accumulator's width, get_bits returns floor(S / 2^start) mod
\* 2^(end - start + 1), which is below 2^(end - start + 1), also across a word
\* boundary.
C4_GetBitsExact ==
    (/\ out.op = "get_bits"
     /\ inp.start <= inp.end
     /\ inp.end < WordBits * Len(inp.regs)
     /\ inp.end - inp.start < AccBits)
        => (/\ ~out.panic
            /\ out.rval = (StreamValue(inp.regs) \div (2 ^ inp.start))
                              % (2 ^ (inp.end - inp.start + 1))
            /\ out.rval < 2 ^ (inp.end - inp.start + 1))

\* A field that crosses a word boundary, with a set bit on each side and a
\* clear bit inside, was extracted.
C4_Witness ==
    /\ out.op = "get_bits"
    /\ ~out.panic
    /\ inp.start < WordBits
    /\ inp.end >= WordBits
    /\ inp.end - inp.start < AccBits
    /\ inp.end < WordBits * Len(inp.regs)
    /\ out.rval % 2 = 1
    /\ out.rval >= 2 ^ (inp.end - inp.start)
    /\ out.rval < 2 ^ (inp.end - inp.start + 1) - 1

\* C23: get_bits called with start <= end and an end past the words (an
\* empty word list included) returns no value: the index of regs panics
\* before any bit is accumulated; called with start > end it returns 0
\* without reading a word.
C23_GetBitsOutOfRange ==
    out.op = "get_bits" =>
        /\ (inp.start <= inp.end /\ inp.end >= WordBits * Len(inp.regs))
               => (out.panic /\ out.n = 0)
        /\ inp.start > inp.end
               => (~out.panic /\ out.rval = 0 /\ out.n = 0)

\* get_bits panicked on a range that starts inside the words, which hold a
\* set bit there, and ends past them.
C23_Witness ==
    /\ out.op = "get_bits"
    /\ inp.regs # <<>>
    /\ inp.start < WordBits * Len(inp.regs)
    /\ inp.end >= WordBits * Len(inp.regs)
    /\ get_bit(inp.regs[(inp.start \div WordBits) + 1],
               inp.start % WordBits) = 1
    /\ out.panic
    /\ out.n = 0

----------------------------------------------------------------------------
(* ChipId: src/crates/tofino/src/fuse.rs *)

\* The most set bits (or, for the complemented values, clear bits) of a raw
\* value drawn.
MaxSetBits == 2

\* A u64 is held as four 16-bit limbs, least significant first.
LimbMod == 2 ^ 16

RECURSIVE AscSeqs(_)
\* The strictly ascending sequences of at most n bit positions of a u64.
AscSeqs(n) ==
    IF n = 0 THEN {<<>>}
    ELSE LET P == AscSeqs(n - 1)
             L == {r \in P : Len(r) = n - 1}
         IN  P \cup UNION {{Append(q, i) :
                               i \in (IF q = <<>> THEN 0 ELSE q[Len(q)] + 1)
                                         .. 63} : q \in L}

RECURSIVE LimbOf(_, _, _)
\* Limb i (from 1) of the u64 whose set bits are those of S: the sum of 2^k
\* over the bits 16 * (i - 1) + k of S, for k from k0 to 15.
LimbOf(S, i, k0) ==
    IF k0 > 15 THEN 0
    ELSE (IF 16 * (i - 1) + k0 \in S THEN 2 ^ k0 ELSE 0)
             + LimbOf(S, i, k0 + 1)

\* The u64 whose set bits are exactly those of S.
U64OfBits(S) == [i \in 1 .. 4 |-> LimbOf(S, i, 0)]

\* 0x08025dbb797061d4, the raw value of test_chip.
Fixture == <<25044, 31088, 23995, 2050>>

\* The raw value an input stands for: the fixture, the value with the bits
\* of inp.bits set, or the value with exactly those bits clear.
RawOf(i) ==
    IF i.fixture THEN Fixture
    ELSE LET S == {i.bits[k] : k \in 1 .. Len(i.bits)} IN
         U64OfBits(IF i.inv THEN (0 .. 63) \ S ELSE S)

\* a >> bits on a u64, for bits < 16.
ShrU64(a, bits) ==
    [i \in 1 .. 4 |->
        (a[i] \div (2 ^ bits))
            + (IF i < 4 THEN (a[i + 1] % (2 ^ bits)) * (2 ^ (16 - bits))
               ELSE 0)]

\* A plausible slip: a whole byte consumed for every field.
bite_byte(a, bits) ==
    [rval |-> (a[1] % (2 ^ bits)) % 256, a |-> ShrU64(a, 8)]

\* bite: the low `bits` bits of *a as a u8, and *a shifted right by `bits`.
bite(a, bits) ==
    [rval |-> (a[1] % (2 ^ bits)) % 256, a |-> ShrU64(a, bits)]

\* ChipId::from(raw): the eleven fields, bitten off in declaration order.
ChipIdFrom(raw) ==
    LET b1 == bite(raw, 7)
        b2 == bite(b1.a, 7)
        b3 == bite(b2.a, 7)
        b4 == bite(b3.a, 7)
        b5 == bite(b4.a, 7)
        b6 == bite(b5.a, 7)
        b7 == bite(b6.a, 5)
        b8 == bite(b7.a, 1)
        b9 == bite(b8.a, 7)
        b10 == bite(b9.a, 1)
        b11 == bite(b10.a, 7)
    IN  [fab |-> b1.rval, lot |-> b2.rval, lotnum0 |-> b3.rval,
         lotnum1 |-> b4.rval, lotnum2 |-> b5.rval, lotnum3 |-> b6.rval,
         wafer |-> b7.rval, xsign |-> b8.rval, x |-> b9.rval,
         ysign |-> b10.rval, y |-> b11.rval]

InitChip ==
    /\ len = MaxLen
    /\ mem = [w \in MemWords |-> 0]
    /\ build = "release"
    /\ regmap = StubMap
    /\ inp \in [fn : {"chip"}, fixture : {FALSE}, inv : BOOLEAN,
                bits : AscSeqs(MaxSetBits)]
               \cup {[fn |-> "chip", fixture |-> TRUE, inv |-> FALSE,
                      bits |-> <<>>]}
    /\ out = NoOp

ChipFrom ==
    /\ inp.fn = "chip"
    /\ out = NoOp
    /\ out' = [op |-> "chip", raw |-> RawOf(inp),
               id |-> ChipIdFrom(RawOf(inp))]
    /\ UNCHANGED <<len, mem, build, regmap, inp>>

NextChip == ChipFrom

SpecChip == InitChip /\ [][NextChip]_vars

\* Bit k of a u64.
BitOf(a, k) == (a[(k \div 16) + 1] \div (2 ^ (k % 16))) % 2

RECURSIVE FieldOf(_, _, _)
\* Bits lo..hi of a u64, bit lo the least significant.
FieldOf(a, lo, hi) ==
    IF lo > hi THEN 0 ELSE BitOf(a, lo) + 2 * FieldOf(a, lo + 1, hi)

\* C5: ChipId::from takes fab from bits 0..6, lot from 7..13, lotnum0..3
\* from 14..20, 21..27, 28..34, 35..41, wafer from 42..46, xsign from 47, x
\* from 48..54, ysign from 55 and y from 56..62; the raw value of test_chip
\* decodes to T, C, A, K, 7, 7, wafer 23, X +2, Y +8.
C5_ChipIdLayout ==
    out.op = "chip" =>
        /\ out.id = [fab |-> FieldOf(out.raw, 0, 6),
                     lot |-> FieldOf(out.raw, 7, 13),
                     lotnum0 |-> FieldOf(out.raw, 14, 20),
                     lotnum1 |-> FieldOf(out.raw, 21, 27),
                     lotnum2 |-> FieldOf(out.raw, 28, 34),
                     lotnum3 |-> FieldOf(out.raw, 35, 41),
                     wafer |-> FieldOf(out.raw, 42, 46),
                     xsign |-> FieldOf(out.raw, 47, 47),
                     x |-> FieldOf(out.raw, 48, 54),
                     ysign |-> FieldOf(out.raw, 55, 55),
                     y |-> FieldOf(out.raw, 56, 62)]
        /\ out.raw = Fixture =>
               out.id = [fab |-> 84, lot |-> 67, lotnum0 |-> 65,
                         lotnum1 |-> 75, lotnum2 |-> 55, lotnum3 |-> 55,
                         wafer |-> 23, xsign |-> 0, x |-> 2, ysign |-> 0,
                         y |-> 8]

\* The raw value of test_chip was decoded.
C5_Witness ==
    /\ out.op = "chip"
    /\ out.raw = Fixture
    /\ out.id.fab = 84
    /\ out.id.y = 8

----------------------------------------------------------------------------
(* The register tree behind tofino_regs::RegMap.  A tree of n nodes besides  *)
(* the root (node 0): parent[i] < i is the parent of node i, name[i] its     *)
(* name; the children of a node are declared in ascending order of their     *)
(* number.  Strings are sequences of one-character strings.                  *)

\* The most nodes, besides the root, of a register tree drawn.
MaxNodes == 3

NodeNames == {<<"a">>, <<"a", "b">>, <<"4">>}

\* The children of node p, in declaration order.
RECURSIVE KidsFrom(_, _, _)
KidsFrom(t, p, i) ==
    IF i > t.n THEN <<>>
    ELSE (IF t.parent[i] = p THEN <<i>> ELSE <<>>) \o KidsFrom(t, p, i + 1)

Kids(t, p) == KidsFrom(t, p, 1)

\* The trees of exactly n nodes besides the root, no two children of a node
\* having the same name.
TreesOfSize(n) ==
    {t \in [stub : {FALSE}, n : {n}, parent : [1 .. n -> 0 .. (n - 1)],
            name : [1 .. n -> NodeNames]] :
        /\ \A i \in 1 .. n : t.parent[i] < i
        /\ \A i, j \in 1 .. n :
               (i < j /\ t.parent[i] = t.parent[j]) => t.name[i] # t.name[j]}

\* The register maps of at most n nodes, and the stub.
RegMapsUpTo(n) == {StubMap} \cup UNION {TreesOfSize(k) : k \in 0 .. n}

\* Node.size, the byte size a node declares, and the offset of a node.
SizeOf(i) == IF i = 0 THEN 0 ELSE 2 * i + 2

OffsetOf(i) == IF i = 0 THEN 0 ELSE 4 * (i - 1)

\* The segments of a dotted path, empty segments dropped.
RECURSIVE SplitFrom(_, _, _)
SplitFrom(path, i, cur) ==
    IF i > Len(path) THEN (IF cur = <<>> THEN <<>> ELSE <<cur>>)
    ELSE IF path[i] = "."
         THEN (IF cur = <<>> THEN <<>> ELSE <<cur>>)
                  \o SplitFrom(path, i + 1, <<>>)
         ELSE SplitFrom(path, i + 1, Append(cur, path[i]))

Segments(path) == SplitFrom(path, 1, <<>>)

\* The walk of get_node from node p along segs: the node reached, or
\* failure when a segment names no child.
RECURSIVE Walk(_, _, _)
Walk(t, p, segs) ==
    IF segs = <<>> THEN [ok |-> TRUE, id |-> p]
    ELSE LET c == {i \in 1 .. t.n :
                      t.parent[i] = p /\ t.name[i] = Head(segs)}
         IN  IF c = {} THEN [ok |-> FALSE, id |-> 0]
             ELSE Walk(t, CHOOSE i \in c : TRUE, Tail(segs))

\* RegMap::get_node: the stub fails; a tree resolves the dotted path.
get_node(map, path) ==
    IF map.stub THEN [ok |-> FALSE, id |-> 0]
    ELSE Walk(map, 0, Segments(path))

\* RegMap::get_offset: the same resolution, returning the node's offset.
get_offset(map, path) ==
    LET r == get_node(map, path) IN
    [ok |-> r.ok, v |-> IF r.ok THEN OffsetOf(r.id) ELSE 0]

\* get_children: the names of the node's children, in declaration order.
get_children(map, id) ==
    LET k == Kids(map, id) IN [i \in 1 .. Len(k) |-> map.name[k[i]]]

\* str::contains: t occurs in p as a contiguous substring.
Contains(p, t) ==
    \E i \in 0 .. (Len(p) - Len(t)) : SubSeq(p, i + 1, i + Len(t)) = t

----------------------------------------------------------------------------
(* search: src/crates/tftool/src/lib.rs, src/src/tftool/main.rs *)

\* The largest max drawn for a search.
MaxMax == 2

Targets == {<<>>, <<"a">>, <<".", "4">>, <<"a", ".", "a">>, <<".", ".">>,
            <<"z">>}

\* The state a traversal threads through: cnt, the paths printed, the leaves
\* visited, and whether a lookup failed.
SearchStart == [cnt |-> 0, printed |-> <<>>, visited |-> <<>>, err |-> FALSE]

\* A plausible slip: matches beyond max are not counted.
visit_leaf_capped(st, max, path, tgt) ==
    LET v == [st EXCEPT !.visited = Append(@, path)] IN
    IF Contains(path, tgt) /\ st.cnt + 1 <= max
    THEN [v EXCEPT !.cnt = @ + 1, !.printed = Append(@, path)]
    ELSE v

\* The leaf branch of search_in: a matching path is counted, and printed
\* while cnt <= max.
visit_leaf(st, max, path, tgt) ==
    LET v == [st EXCEPT !.visited = Append(@, path)] IN
    IF Contains(path, tgt)
    THEN IF st.cnt + 1 <= max
         THEN [v EXCEPT !.cnt = @ + 1, !.printed = Append(@, path)]
         ELSE [v EXCEPT !.cnt = @ + 1]
    ELSE v

RECURSIVE search_in(_, _, _, _, _)
RECURSIVE search_children(_, _, _, _, _, _, _)

\* search_in: get_node and get_children of path (a failure is returned at
\* once), then the leaf branch or the children in order.
search_in(map, st, max, path, tgt) ==
    LET node == get_node(map, path) IN
    IF ~node.ok THEN [st EXCEPT !.err = TRUE]
    ELSE LET children == get_children(map, node.id) IN
         IF children = <<>> THEN visit_leaf(st, max, path, tgt)
         ELSE search_children(map, st, max, path, tgt, children, 1)

\* The loop over the children of path, from child i: next is
\* "{path}.{name}", and the first failure ends the loop.
search_children(map, st, max, path, tgt, children, i) ==
    IF i > Len(children) THEN st
    ELSE LET next == path \o <<".">> \o children[i]
             st2 == search_in(map, st, max, next, tgt)
         IN  IF st2.err THEN st2
             ELSE search_children(map, st2, max, path, tgt, children, i + 1)

\* A plausible slip: "not found" decided by what was printed.
search_outcome_printed(st, max) ==
    IF st.err THEN [result |-> "error", total |-> FALSE]
    ELSE [result |-> IF st.printed = <<>> THEN "not_found" ELSE "ok",
          total |-> st.cnt > max]

\* The end of search: a traversal failure is returned as it is; otherwise
\* the total is printed when cnt > max, and cnt = 0 is "not found".
search_outcome(st, max) ==
    IF st.err THEN [result |-> "error", total |-> FALSE]
    ELSE [result |-> IF st.cnt = 0 THEN "not_found" ELSE "ok",
          total |-> st.cnt > max]

\* search(ctx, max, tgt): the traversal from ".", then the outcome.
search(map, max, tgt) ==
    LET st == search_in(map, SearchStart, max, <<".">>, tgt)
        o == search_outcome(st, max)
    IN  [result |-> o.result, total |-> o.total, cnt |-> st.cnt,
         printed |-> st.printed, visited |-> st.visited]

InitSearch ==
    /\ len = MaxLen
    /\ mem = [w \in MemWords |-> 0]
    /\ build = "release"
    /\ regmap \in RegMapsUpTo(MaxNodes)
    /\ inp = NoInp
    /\ out = NoOp

Search ==
    /\ out = NoOp
    /\ \E max \in 0 .. MaxMax, tgt \in Targets :
           LET r == search(regmap, max, tgt) IN
           out' = [op |-> "search", max |-> max, tgt |-> tgt,
                   result |-> r.result, total |-> r.total, cnt |-> r.cnt,
                   printed |-> r.printed, visited |-> r.visited]
    /\ UNCHANGED <<len, mem, build, regmap, inp>>

NextSearch == Search

SpecSearch == InitSearch /\ [][NextSearch]_vars

\* The full dotted path of node i, as search_in builds it: "." for the root,
\* then ".{name}" for every step down.
RECURSIVE PathOfNode(_, _)
PathOfNode(t, i) ==
    IF i = 0 THEN <<".">>
    ELSE PathOfNode(t, t.parent[i]) \o <<".">> \o t.name[i]

\* The leaves below node i (i itself when it has no children), depth first
\* with the children in declaration order.
RECURSIVE LeavesOf(_, _)
RECURSIVE LeavesOfKids(_, _, _)
LeavesOf(t, i) ==
    IF Kids(t, i) = <<>> THEN <<i>> ELSE LeavesOfKids(t, Kids(t, i), 1)

LeavesOfKids(t, kids, k) ==
    IF k > Len(kids) THEN <<>>
    ELSE LeavesOf(t, kids[k]) \o LeavesOfKids(t, kids, k + 1)

LeafPaths(t) ==
    LET l == LeavesOf(t, 0) IN [k \in 1 .. Len(l) |-> PathOfNode(t, l[k])]

\* The leaf paths that contain tgt, in traversal order.
RECURSIVE MatchesIn(_, _)
MatchesIn(paths, tgt) ==
    IF paths = <<>> THEN <<>>
    ELSE (IF Contains(Head(paths), tgt) THEN <<Head(paths)>> ELSE <<>>)
             \o MatchesIn(Tail(paths), tgt)

Min(a, b) == IF a <= b THEN a ELSE b

\* C9: on a register tree, search visits every leaf once, depth first in
\* declaration order; cnt ends as the number of leaves whose path contains
\* the target; the paths printed are the first min(cnt, max) matches in that
\* order; and the total is reported exactly when cnt > max.
C9_SearchCounts ==
    (out.op = "search" /\ ~regmap.stub) =>
        LET matches == MatchesIn(LeafPaths(regmap), out.tgt) IN
        /\ out.visited = LeafPaths(regmap)
        /\ out.cnt = Len(matches)
        /\ out.printed = SubSeq(matches, 1, Min(Len(matches), out.max))
        /\ out.total = (Len(matches) > out.max)

\* A search with more matches than max, and a leaf that does not match: the
\* total was reported and only max paths printed.
C9_Witness ==
    /\ out.op = "search"
    /\ ~regmap.stub
    /\ out.max > 0
    /\ out.cnt > out.max
    /\ Len(out.printed) = out.max
    /\ Len(out.visited) > out.cnt
    /\ out.total

\* C10: search returns "not found" exactly when the traversal completed and
\* no leaf path contains the target, succeeds whenever a leaf matches (also
\* with max = 0), and returns a traversal failure as an error of its own.
C10_NotFound ==
    out.op = "search" =>
        IF regmap.stub THEN out.result = "error"
        ELSE LET matches == MatchesIn(LeafPaths(regmap), out.tgt) IN
             /\ (out.result = "not_found") = (matches = <<>>)
             /\ (matches # <<>>) => out.result = "ok"

\* A search with max = 0 and a matching leaf succeeded, printing nothing.
C10_Witness ==
    /\ out.op = "search"
    /\ ~regmap.stub
    /\ out.max = 0
    /\ out.cnt > 0
    /\ out.printed = <<>>
    /\ out.result = "ok"

----------------------------------------------------------------------------
(* Register read and write: src/crates/tftool/src/lib.rs,                    *)
(* src/src/tftool/main.rs                                                    *)

\* The largest explicit word count drawn for a read.
MaxCnt == 3

\* The most nodes, besides the root, of a register tree drawn for a register
\* command.
MaxRegNodes == 2

\* The value of a digit character in the given radix, or -1.
DigitVal(c, radix) ==
    LET dec == [d \in {"0", "1", "2", "3", "4", "5", "6", "7", "8", "9"} |->
                   CASE d = "0" -> 0 [] d = "1" -> 1 [] d = "2" -> 2
                     [] d = "3" -> 3 [] d = "4" -> 4 [] d = "5" -> 5
                     [] d = "6" -> 6 [] d = "7" -> 7 [] d = "8" -> 8
                     [] d = "9" -> 9]
        hex == [d \in {"a", "b", "c", "d", "e", "f",
                       "A", "B", "C", "D", "E", "F"} |->
                   CASE d \in {"a", "A"} -> 10 [] d \in {"b", "B"} -> 11
                     [] d \in {"c", "C"} -> 12 [] d \in {"d", "D"} -> 13
                     [] d \in {"e", "E"} -> 14 [] d \in {"f", "F"} -> 15]
    IN  IF c \in DOMAIN dec THEN dec[c]
        ELSE IF radix = 16 /\ c \in DOMAIN hex THEN hex[c]
        ELSE -1

RECURSIVE ParseDigits(_, _, _)
\* The digit loop of u32::from_str_radix: an invalid digit or a value that
\* does not fit a u32 is an error.
ParseDigits(d, radix, acc) ==
    IF d = <<>> THEN [ok |-> TRUE, v |-> acc]
    ELSE LET x == DigitVal(Head(d), radix) IN
         IF x < 0 \/ acc * radix + x >= U32Mod THEN [ok |-> FALSE, v |-> 0]
         ELSE ParseDigits(Tail(d), radix, acc * radix + x)

\* u32::from_str_radix (and str::parse::<u32> with radix 10): the empty
\* string and a lone sign are errors, one leading "+" is accepted.
from_str_radix(src, radix) ==
    IF src = <<>> \/ src = <<"+">> \/ src = <<"-">>
    THEN [ok |-> FALSE, v |-> 0]
    ELSE ParseDigits(IF Head(src) = "+" THEN Tail(src) ELSE src, radix, 0)

starts_with_0x(v) == Len(v) >= 2 /\ v[1] = "0" /\ v[2] = "x"

RECURSIVE trim_start_matches_0x(_)
\* str::trim_start_matches("0x"): every leading "0x" is removed.
trim_start_matches_0x(v) ==
    IF starts_with_0x(v) THEN trim_start_matches_0x(SubSeq(v, 3, Len(v)))
    ELSE v

\* parse_val: hexadecimal after a "0x" prefix, decimal otherwise.
parse_val(v) ==
    IF starts_with_0x(v) THEN from_str_radix(trim_start_matches_0x(v), 16)
    ELSE from_str_radix(v, 10)

RECURSIVE read_offset_loop(_, _, _, _, _, _, _)
\* The loop of read_offset with `left` reads to go: read4 at offset (its
\* failure ends the loop), then offset += 4.  r collects the offsets read4
\* was called with and the values pushed.
read_offset_loop(l, m, b, offset, left, ub, r) ==
    IF left = 0 THEN r
    ELSE LET x == read4(l, m, b, offset, ub)
             called == [r EXCEPT !.reads = Append(@, offset)]
         IN  IF x.kind # "ok" THEN [called EXCEPT !.kind = x.kind]
             ELSE LET pushed == [called EXCEPT !.vals = Append(@, x.val)]
                      nxt == AddU32(b, offset, 4)
                  IN  IF nxt.panic THEN [pushed EXCEPT !.kind = "panic"]
                      ELSE read_offset_loop(l, m, b, nxt.v, left - 1, ub,
                                            pushed)

\* read_offset(ctx, offset, cnt): cnt words from offset on, or the first
\* failure.
read_offset(l, m, b, offset, cnt, ub) ==
    read_offset_loop(l, m, b, offset, cnt, ub,
                     [kind |-> "ok", reads |-> <<>>, vals |-> <<>>])

\* Option<u32>::unwrap_or(1)
unwrap_or_1(cnt) == IF cnt.some THEN cnt.v ELSE 1

\* A plausible slip: the register name tried before the literal.
resolve_read_name_first(map, reg, cnt) ==
    LET node == get_node(map, reg)
        lit == parse_val(reg)
    IN  IF node.ok
        THEN LET o == get_offset(map, reg) IN
             [ok |-> o.ok, by |-> "name", offset |-> o.v,
              cnt |-> SizeOf(node.id) \div 4,
              lookups |-> <<"get_node", "get_offset">>]
        ELSE IF lit.ok
        THEN [ok |-> TRUE, by |-> "literal", offset |-> lit.v,
              cnt |-> unwrap_or_1(cnt), lookups |-> <<"get_node">>]
        ELSE [ok |-> FALSE, by |-> "none", offset |-> 0,
              cnt |-> unwrap_or_1(cnt), lookups |-> <<"get_node">>]

\* The resolution of cmd_read: the literal first; then the register name,
\* which sets cnt to node.size / 4; else "bad register/offset".  lookups
\* lists the calls made on the register map.
resolve_read(map, reg, cnt) ==
    LET lit == parse_val(reg) IN
    IF lit.ok
    THEN [ok |-> TRUE, by |-> "literal", offset |-> lit.v,
          cnt |-> unwrap_or_1(cnt), lookups |-> <<>>]
    ELSE LET node == get_node(map, reg) IN
         IF node.ok
         THEN LET o == get_offset(map, reg) IN
              [ok |-> o.ok, by |-> "name", offset |-> o.v,
               cnt |-> SizeOf(node.id) \div 4,
               lookups |-> <<"get_node", "get_offset">>]
         ELSE [ok |-> FALSE, by |-> "none", offset |-> 0,
               cnt |-> unwrap_or_1(cnt), lookups |-> <<"get_node">>]

\* cmd_read(ctx, reg, cnt): the resolution, then read_offset.
cmd_read(l, m, b, map, reg, cnt, ub) ==
    LET res == resolve_read(map, reg, cnt) IN
    IF ~res.ok
    THEN [kind |-> "bad_register", by |-> res.by, offset |-> res.offset,
          cnt |-> res.cnt, lookups |-> res.lookups, reads |-> <<>>,
          vals |-> <<>>]
    ELSE LET r == read_offset(l, m, b, res.offset, res.cnt, ub) IN
         [kind |-> r.kind, by |-> res.by, offset |-> res.offset,
          cnt |-> res.cnt, lookups |-> res.lookups, reads |-> r.reads,
          vals |-> r.vals]

\* The resolution of cmd_write: the literal first, then get_offset of the
\* register name, else "bad register/offset".
resolve_write(map, reg) ==
    LET lit == parse_val(reg) IN
    IF lit.ok
    THEN [ok |-> TRUE, by |-> "literal", offset |-> lit.v, lookups |-> <<>>]
    ELSE LET o == get_offset(map, reg) IN
         [ok |-> o.ok, by |-> IF o.ok THEN "name" ELSE "none",
          offset |-> o.v, lookups |-> <<"get_offset">>]

\* write_offset: one write4.
write_offset(l, m, b, offset, val, ub) ==
    LET w == write4(l, m, b, offset, val, ub) IN
    [kind |-> w.kind, mem |-> w.mem,
     writes |-> <<[offset |-> offset, val |-> val]>>]

\* A plausible slip: a value that does not parse is written as 0.
cmd_write_default(l, m, b, map, reg, val, ub) ==
    LET res == resolve_write(map, reg)
        v == parse_val(val)
    IN  IF ~res.ok
        THEN [kind |-> "bad_register", by |-> res.by, offset |-> res.offset,
              lookups |-> res.lookups, writes |-> <<>>, mem |-> m]
        ELSE LET w == write_offset(l, m, b, res.offset,
                                   IF v.ok THEN v.v ELSE 0, ub)
             IN  [kind |-> w.kind, by |-> res.by, offset |-> res.offset,
                  lookups |-> res.lookups, writes |-> w.writes,
                  mem |-> w.mem]

\* cmd_write(ctx, reg, val): the resolution, then the value parsed, then
\* write_offset.
cmd_write(l, m, b, map, reg, val, ub) ==
    LET res == resolve_write(map, reg) IN
    IF ~res.ok
    THEN [kind |-> "bad_register", by |-> res.by, offset |-> res.offset,
          lookups |-> res.lookups, writes |-> <<>>, mem |-> m]
    ELSE LET v == parse_val(val) IN
         IF ~v.ok
         THEN [kind |-> "bad_value", by |-> res.by, offset |-> res.offset,
               lookups |-> res.lookups, writes |-> <<>>, mem |-> m]
         ELSE LET w == write_offset(l, m, b, res.offset, v.v, ub) IN
              [kind |-> w.kind, by |-> res.by, offset |-> res.offset,
               lookups |-> res.lookups, writes |-> w.writes, mem |-> w.mem]

\* The identifiers drawn: literals (aligned, unaligned, out of range, with a
\* repeated prefix or a sign), register names, a name that is also a
\* literal, and strings that are neither.
Idents ==
    {<<"0">>, <<"4">>, <<"0", "x", "4">>, <<"5">>, <<"1", "2">>,
     <<"0", "x", "0", "x", "4">>, <<"+", "4">>, <<"0", "x">>,
     <<"a">>, <<"a", "b">>, <<"a", ".", "4">>, <<"a", ".", "a">>,
     <<"z">>, <<"-", "4">>}

\* The value strings drawn for a write.
ValStrs == {<<"0">>, <<"1">>, <<"0", "x", "1">>, <<"x">>, <<>>}

\* Option<u32>: none, or some count up to MaxCnt.
Counts ==
    {[some |-> FALSE, v |-> 0]} \cup [some : {TRUE}, v : 0 .. MaxCnt]

\* The memory before a command: word w holds (w + 1) mod (MaxVal + 1), or
\* every word holds 0.
InitMems ==
    {[w \in MemWords |-> 0], [w \in MemWords |-> (w + 1) % (MaxVal + 1)]}

InitReg ==
    /\ len = MaxLen
    /\ mem \in InitMems
    /\ build \in Builds
    /\ regmap \in RegMapsUpTo(MaxRegNodes)
    /\ inp = NoInp
    /\ out = NoOp

\* One invocation of `reg read`.
CmdRead ==
    /\ out = NoOp
    /\ \E reg \in Idents, cnt \in Counts :
         \E ub \in UbOutcomes :
           LET r == cmd_read(len, mem, build, regmap, reg, cnt, ub) IN
           out' = [op |-> "cmd_read", reg |-> reg, cnt |-> cnt,
                   kind |-> r.kind, by |-> r.by, offset |-> r.offset,
                   cnt_used |-> r.cnt, lookups |-> r.lookups,
                   reads |-> r.reads, vals |-> r.vals, writes |-> <<>>,
                   changed |-> {}]
    /\ UNCHANGED <<len, mem, build, regmap, inp>>

\* One invocation of `reg write`.
CmdWrite ==
    /\ out = NoOp
    /\ \E reg \in Idents, val \in ValStrs :
         \E ub \in UbOutcomes :
           LET r == cmd_write(len, mem, build, regmap, reg, val, ub) IN
           /\ mem' = r.mem
           /\ out' = [op |-> "cmd_write", reg |-> reg, val |-> val,
                      kind |-> r.kind, by |-> r.by, offset |-> r.offset,
                      lookups |-> r.lookups, reads |-> <<>>,
                      writes |-> r.writes, changed |-> Changed(mem, r.mem)]
    /\ UNCHANGED <<len, build, regmap, inp>>

NextReg == CmdRead \/ CmdWrite

SpecReg == InitReg /\ [][NextReg]_vars

IsRegOp == out.op \in {"cmd_read", "cmd_write"}

\* C6: in cmd_read and cmd_write an identifier that parse_val accepts is used
\* as that literal offset and the register tree is not consulted; the tree
\* is consulted only after literal parsing has failed.
C6_LiteralFirst ==
    IsRegOp =>
        /\ parse_val(out.reg).ok =>
               (/\ out.by = "literal"
                /\ out.offset = parse_val(out.reg).v
                /\ out.lookups = <<>>)
        /\ out.lookups # <<>> => ~parse_val(out.reg).ok

\* The identifier "4" names a node of the tree at another offset, and was
\* read as the literal offset 4 with no lookup.
C6_Witness ==
    /\ out.op = "cmd_read"
    /\ out.reg = <<"4">>
    /\ get_node(regmap, out.reg).ok
    /\ get_offset(regmap, out.reg).v # 4
    /\ out.offset = 4
    /\ out.lookups = <<>>

\* C7: cmd_read reads the caller's count whenever one is supplied, and only
\* without one defaults to node.size / 4 for a name and to 1 for a literal.
C7_ExplicitCountWins ==
    (out.op = "cmd_read" /\ out.by # "none") =>
        out.cnt_used =
            (IF out.cnt.some THEN out.cnt.v
             ELSE IF out.by = "name"
                  THEN SizeOf(get_node(regmap, out.reg).id) \div 4
                  ELSE 1)

\* C8: cmd_write makes exactly one write4, of the parsed value at the
\* resolved offset, when the identifier resolves and the value parses;
\* otherwise it returns an error and writes nothing.
C8_OneWrite ==
    out.op = "cmd_write" =>
        IF out.by # "none" /\ parse_val(out.val).ok
        THEN out.writes = <<[offset |-> out.offset,
                             val |-> parse_val(out.val).v]>>
        ELSE /\ out.kind \in {"bad_register", "bad_value"}
             /\ out.writes = <<>>
             /\ out.changed = {}

\* A register name resolved through the tree and a value that does not parse:
\* the write was refused.
C8_Witness ==
    /\ out.op = "cmd_write"
    /\ out.by = "name"
    /\ ~parse_val(out.val).ok
    /\ out.kind = "bad_value"
    /\ out.writes = <<>>

----------------------------------------------------------------------------
(* Descriptor rings: src/crates/tftool/src/dr.rs *)

\* The width, in bits, of a ring register in the model (32 in the program);
\* a 64-bit address is two registers wide.
RegBits == 1

RegMod == 2 ^ RegBits

RegVals == 0 .. (RegMod - 1)

\* REGISTER_SIZE: the 72 MiB window the tool maps.
REGISTER_SIZE == 72 * 1024 * 1024

\* The characters of the ring names and of the names asked for, in the order
\* of their bytes.
Ascii ==
    <<" ", "0", "1", "2", "3", "4", "5", "6", "7", "8", "9", "_",
      "a", "b", "c", "d", "e", "f", "g", "h", "i", "j", "k", "l", "m",
      "n", "o", "p", "q", "r", "s", "t", "u", "v", "w", "x", "y", "z">>

CharOrd(c) == CHOOSE i \in 1 .. Len(Ascii) : Ascii[i] = c

RECURSIVE StrLess(_, _)
\* Ord for String: a < b, byte by byte, a proper prefix being smaller.
StrLess(a, b) ==
    IF b = <<>> THEN FALSE
    ELSE IF a = <<>> THEN TRUE
    ELSE IF Head(a) = Head(b) THEN StrLess(Tail(a), Tail(b))
    ELSE CharOrd(Head(a)) < CharOrd(Head(b))

\* The m.insert calls of get_drs, in the order of the source.
DrInserts ==
    <<
     \* "fm_pkt_0" at 0x300400
     [name |-> <<"f", "m", "_", "p", "k", "t", "_", "0">>,
      offset |-> 3146752],
     \* "fm_pkt_1 " at 0x300434
     [name |-> <<"f", "m", "_", "p", "k", "t", "_", "1", " ">>,
      offset |-> 3146804],
     \* "fm_pkt_2" at 0x300468
     [name |-> <<"f", "m", "_", "p", "k", "t", "_", "2">>,
      offset |-> 3146856],
     \* "fm_pkt_3" at 0x30049c
     [name |-> <<"f", "m", "_", "p", "k", "t", "_", "3">>,
      offset |-> 3146908],
     \* "fm_pkt_4" at 0x3004d0
     [name |-> <<"f", "m", "_", "p", "k", "t", "_", "4">>,
      offset |-> 3146960],
     \* "fm_pkt_5" at 0x300504
     [name |-> <<"f", "m", "_", "p", "k", "t", "_", "5">>,
      offset |-> 3147012],
     \* "fm_pkt_6" at 0x300538
     [name |-> <<"f", "m", "_", "p", "k", "t", "_", "6">>,
      offset |-> 3147064],
     \* "fm_pkt_7" at 0x30056c
     [name |-> <<"f", "m", "_", "p", "k", "t", "_", "7">>,
      offset |-> 3147116],
     \* "fm_lrt" at 0x200900
     [name |-> <<"f", "m", "_", "l", "r", "t">>,
      offset |-> 2099456],
     \* "fm_idle" at 0x200980
     [name |-> <<"f", "m", "_", "i", "d", "l", "e">>,
      offset |-> 2099584],
     \* "fm_learn" at 0x280600
     [name |-> <<"f", "m", "_", "l", "e", "a", "r", "n">>,
      offset |-> 2622976],
     \* "fm_diag" at 0x200a00
     [name |-> <<"f", "m", "_", "d", "i", "a", "g">>,
      offset |-> 2099712],
     \* "tx_pipe_inst_list_0" at 0x200600
     [name |-> <<"t", "x", "_", "p", "i", "p", "e", "_", "i", "n", "s", "t", "_", "l", "i", "s", "t", "_", "0">>,
      offset |-> 2098688],
     \* "tx_pipe_inst_list_1" at 0x200634
     [name |-> <<"t", "x", "_", "p", "i", "p", "e", "_", "i", "n", "s", "t", "_", "l", "i", "s", "t", "_", "1">>,
      offset |-> 2098740],
     \* "tx_pipe_inst_list_2" at 0x200668
     [name |-> <<"t", "x", "_", "p", "i", "p", "e", "_", "i", "n", "s", "t", "_", "l", "i", "s", "t", "_", "2">>,
      offset |-> 2098792],
     \* "tx_pipe_inst_list_3" at 0x20069c
     [name |-> <<"t", "x", "_", "p", "i", "p", "e", "_", "i", "n", "s", "t", "_", "l", "i", "s", "t", "_", "3">>,
      offset |-> 2098844],
     \* "tx_pipe_write_block" at 0x200800
     [name |-> <<"t", "x", "_", "p", "i", "p", "e", "_", "w", "r", "i", "t", "e", "_", "b", "l", "o", "c", "k">>,
      offset |-> 2099200],
     \* "tx_pipe_read_block" at 0x200880
     [name |-> <<"t", "x", "_", "p", "i", "p", "e", "_", "r", "e", "a", "d", "_", "b", "l", "o", "c", "k">>,
      offset |-> 2099328],
     \* "tx_que_write_list" at 0x280400
     [name |-> <<"t", "x", "_", "q", "u", "e", "_", "w", "r", "i", "t", "e", "_", "l", "i", "s", "t">>,
      offset |-> 2622464],
     \* "tx_pkt_0" at 0x300100
     [name |-> <<"t", "x", "_", "p", "k", "t", "_", "0">>,
      offset |-> 3145984],
     \* "tx_pkt_1" at 0x300134
     [name |-> <<"t", "x", "_", "p", "k", "t", "_", "1">>,
      offset |-> 3146036],
     \* "tx_pkt_2" at 0x300168
     [name |-> <<"t", "x", "_", "p", "k", "t", "_", "2">>,
      offset |-> 3146088],
     \* "tx_pkt_3" at 0x30019c
     [name |-> <<"t", "x", "_", "p", "k", "t", "_", "3">>,
      offset |-> 3146140],
     \* "tx_mac_stat" at 0x180200
     [name |-> <<"t", "x", "_", "m", "a", "c", "_", "s", "t", "a", "t">>,
      offset |-> 1573376],
     \* "rx_pkt_0" at 0x300600
     [name |-> <<"r", "x", "_", "p", "k", "t", "_", "0">>,
      offset |-> 3147264],
     \* "rx_pkt_1" at 0x300634
     [name |-> <<"r", "x", "_", "p", "k", "t", "_", "1">>,
      offset |-> 3147316],
     \* "rx_pkt_2" at 0x300668
     [name |-> <<"r", "x", "_", "p", "k", "t", "_", "2">>,
      offset |-> 3147368],
     \* "rx_pkt_3" at 0x30069c
     [name |-> <<"r", "x", "_", "p", "k", "t", "_", "3">>,
      offset |-> 3147420],
     \* "rx_pkt_4" at 0x3006d0
     [name |-> <<"r", "x", "_", "p", "k", "t", "_", "4">>,
      offset |-> 3147472],
     \* "rx_pkt_5" at 0x300704
     [name |-> <<"r", "x", "_", "p", "k", "t", "_", "5">>,
      offset |-> 3147524],
     \* "rx_pkt_6" at 0x300738
     [name |-> <<"r", "x", "_", "p", "k", "t", "_", "6">>,
      offset |-> 3147576],
     \* "rx_pkt_7" at 0x30076c
     [name |-> <<"r", "x", "_", "p", "k", "t", "_", "7">>,
      offset |-> 3147628],
     \* "rx_lrt" at 0x200940
     [name |-> <<"r", "x", "_", "l", "r", "t">>,
      offset |-> 2099520],
     \* "rx_idle" at 0x2009c0
     [name |-> <<"r", "x", "_", "i", "d", "l", "e">>,
      offset |-> 2099648],
     \* "rx_learn" at 0x280640
     [name |-> <<"r", "x", "_", "l", "e", "a", "r", "n">>,
      offset |-> 2623040],
     \* "rx_diag" at 0x200a40
     [name |-> <<"r", "x", "_", "d", "i", "a", "g">>,
      offset |-> 2099776],
     \* "cmp_pipe_inst_list_0" at 0x200700
     [name |-> <<"c", "m", "p", "_", "p", "i", "p", "e", "_", "i", "n", "s", "t", "_", "l", "i", "s", "t", "_", "0">>,
      offset |-> 2098944],
     \* "cmp_pipe_inst_list_1" at 0x200734
     [name |-> <<"c", "m", "p", "_", "p", "i", "p", "e", "_", "i", "n", "s", "t", "_", "l", "i", "s", "t", "_", "1">>,
      offset |-> 2098996],
     \* "cmp_pipe_inst_list_2" at 0x200768
     [name |-> <<"c", "m", "p", "_", "p", "i", "p", "e", "_", "i", "n", "s", "t", "_", "l", "i", "s", "t", "_", "2">>,
      offset |-> 2099048],
     \* "cmp_pipe_inst_list_3" at 0x20079c
     [name |-> <<"c", "m", "p", "_", "p", "i", "p", "e", "_", "i", "n", "s", "t", "_", "l", "i", "s", "t", "_", "3">>,
      offset |-> 2099100],
     \* "cmp_que_write_list" at 0x280440
     [name |-> <<"c", "m", "p", "_", "q", "u", "e", "_", "w", "r", "i", "t", "e", "_", "l", "i", "s", "t">>,
      offset |-> 2622528],
     \* "cmp_pipe_write_blk" at 0x200840
     [name |-> <<"c", "m", "p", "_", "p", "i", "p", "e", "_", "w", "r", "i", "t", "e", "_", "b", "l", "k">>,
      offset |-> 2099264],
     \* "cmp_pipe_read_blk" at 0x2008c0
     [name |-> <<"c", "m", "p", "_", "p", "i", "p", "e", "_", "r", "e", "a", "d", "_", "b", "l", "k">>,
      offset |-> 2099392],
     \* "cmp_mac_stat" at 0x180240
     [name |-> <<"c", "m", "p", "_", "m", "a", "c", "_", "s", "t", "a", "t">>,
      offset |-> 1573440],
     \* "cmp_tx_pkt_0" at 0x300200
     [name |-> <<"c", "m", "p", "_", "t", "x", "_", "p", "k", "t", "_", "0">>,
      offset |-> 3146240],
     \* "cmp_tx_pkt_1" at 0x300234
     [name |-> <<"c", "m", "p", "_", "t", "x", "_", "p", "k", "t", "_", "1">>,
      offset |-> 3146292],
     \* "cmp_tx_pkt_2" at 0x300268
     [name |-> <<"c", "m", "p", "_", "t", "x", "_", "p", "k", "t", "_", "2">>,
      offset |-> 3146344],
     \* "cmp_tx_pkt_3" at 0x30029c
     [name |-> <<"c", "m", "p", "_", "t", "x", "_", "p", "k", "t", "_", "3">>,
      offset |-> 3146396],
     \* "tx_mac_write_block" at 0x180280
     [name |-> <<"t", "x", "_", "m", "a", "c", "_", "w", "r", "i", "t", "e", "_", "b", "l", "o", "c", "k">>,
      offset |-> 1573504],
     \* "tx_que_write_list_1" at 0x280480
     [name |-> <<"t", "x", "_", "q", "u", "e", "_", "w", "r", "i", "t", "e", "_", "l", "i", "s", "t", "_", "1">>,
      offset |-> 2622592],
     \* "tx_que_read_block_0" at 0x280500
     [name |-> <<"t", "x", "_", "q", "u", "e", "_", "r", "e", "a", "d", "_", "b", "l", "o", "c", "k", "_", "0">>,
      offset |-> 2622720],
     \* "tx_que_read_block_1" at 0x280580
     [name |-> <<"t", "x", "_", "q", "u", "e", "_", "r", "e", "a", "d", "_", "b", "l", "o", "c", "k", "_", "1">>,
      offset |-> 2622848],
     \* "cmp_mac_write_block" at 0x1802c0
     [name |-> <<"c", "m", "p", "_", "m", "a", "c", "_", "w", "r", "i", "t", "e", "_", "b", "l", "o", "c", "k">>,
      offset |-> 1573568],
     \* "cmp_que_write_list_1" at 0x2804c0
     [name |-> <<"c", "m", "p", "_", "q", "u", "e", "_", "w", "r", "i", "t", "e", "_", "l", "i", "s", "t", "_", "1">>,
      offset |-> 2622656],
     \* "cmp_que_read_block_0" at 0x280540
     [name |-> <<"c", "m", "p", "_", "q", "u", "e", "_", "r", "e", "a", "d", "_", "b", "l", "o", "c", "k", "_", "0">>,
      offset |-> 2622784],
     \* "cmp_que_read_block_1" at 0x2805c0
     [name |-> <<"c", "m", "p", "_", "q", "u", "e", "_", "r", "e", "a", "d", "_", "b", "l", "o", "c", "k", "_", "1">>,
      offset |-> 2622912]
    >>

\* A plausible slip: the entries kept in the order of insertion.
btree_unsorted(inserts) == inserts

\* The BTreeMap after the m.insert calls of `inserts`, held as the sequence
\* of its entries in the order of iteration: a key inserted again keeps its
\* last value, and the entries are in ascending order of their key.
btree_of(inserts) ==
    LET kept == {i \in 1 .. Len(inserts) :
                    \A j \in (i + 1) .. Len(inserts) :
                        inserts[j].name # inserts[i].name}
        ranked == {<<1 + Cardinality({j \in kept :
                                        StrLess(inserts[j].name,
                                                inserts[i].name)}), i>> :
                      i \in kept}
        m == [r \in 1 .. Cardinality(kept) |->
                 inserts[(CHOOSE p \in ranked : p[1] = r)[2]]]
    IN  SubSeq(m, 1, Cardinality(kept))

\* get_drs(): the table of the ring names and their offsets.
get_drs == btree_of(DrInserts)

\* A plausible slip: a key matched with the blanks at its end left out.
btree_get_trimmed(m, key) ==
    LET s == {i \in 1 .. Len(m) :
                 m[i].name = key \/ m[i].name = Append(key, " ")} IN
    IF s = {} THEN [some |-> FALSE, v |-> 0]
    ELSE [some |-> TRUE, v |-> m[CHOOSE i \in s : TRUE].offset]

\* BTreeMap::get
btree_get(m, key) ==
    LET s == {i \in 1 .. Len(m) : m[i].name = key} IN
    IF s = {} THEN [some |-> FALSE, v |-> 0]
    ELSE [some |-> TRUE, v |-> m[CHOOSE i \in s : TRUE].offset]

\* A plausible slip: status taken at 0x2c, the size of a record, instead of
\* 0x28.
DrFieldOffsetsStatusAtSize == <<0, 4, 8, 12, 16, 20, 24, 28, 32, 36, 44>>

\* DrFieldOffsets, in the order read_dr reads the fields.
DrFieldOffsets == <<0, 4, 8, 12, 16, 20, 24, 28, 32, 36, 40>>

DrFieldNames ==
    <<"ctrl", "base_addr_low", "base_addr_high", "limit_addr_low",
      "limit_addr_high", "size", "head_ptr", "tail_ptr", "ring_timeout",
      "data_timeout", "status">>

\* The words of the window that hold a ring record.
DrWords ==
    UNION {{(DrInserts[i].offset + DrFieldOffsets[f]) \div 4 :
               f \in 1 .. Len(DrFieldOffsets)} : i \in 1 .. Len(DrInserts)}

\* Pci::read4 at the width of the program, for the offsets of the ring
\* records: they lie below 2^31 - 4, so `offset + 4` does not overflow, and a
\* word that passes the checks lies inside the window.  m holds the words of
\* DrWords.
pci_read4(l, m, offset) ==
    IF offset % 4 # 0 THEN [kind |-> "unaligned", val |-> 0]
    ELSE IF offset + 4 >= l THEN [kind |-> "outside", val |-> 0]
    ELSE [kind |-> "ok", val |-> m[offset \div 4]]

RECURSIVE read_dr_from(_, _, _, _, _)
\* The field initialisers of read_dr from field f on: read4 at
\* offset + DrFieldOffsets[f], the first failure returned at once.
read_dr_from(l, m, offset, f, r) ==
    IF f > Len(DrFieldOffsets) THEN r
    ELSE LET o == offset + DrFieldOffsets[f]
             x == pci_read4(l, m, o)
             called == [r EXCEPT !.reads = Append(@, o)]
         IN  IF x.kind # "ok" THEN [called EXCEPT !.kind = x.kind]
             ELSE read_dr_from(l, m, offset, f + 1,
                               [called EXCEPT !.vals = Append(@, x.val)])

\* A plausible slip: the record read from base_addr_low on, ctrl left out.
read_dr_without_ctrl(l, m, offset) ==
    read_dr_from(l, m, offset, 2,
                 [kind |-> "ok", reads |-> <<>>, vals |-> <<>>])

\* read_dr(ctx, offset): the eleven fields, as the sequence of their values
\* in the order of DrFieldNames.
read_dr(l, m, offset) ==
    read_dr_from(l, m, offset, 1,
                 [kind |-> "ok", reads |-> <<>>, vals |-> <<>>])

\* list(): one line for every entry of the table, in the order of the map.
list == [i \in 1 .. Len(get_drs) |-> get_drs[i]]

\* show(ctx, dr): the lookup in the table, then read_dr at the offset found;
\* "no such DR" when the name is not a key.
show(l, m, dr) ==
    LET o == btree_get(get_drs, dr) IN
    IF ~o.some
    THEN [kind |-> "no_such_dr", found |-> FALSE, offset |-> 0,
          reads |-> <<>>, vals |-> <<>>]
    ELSE LET r == read_dr(l, m, o.v) IN
         [kind |-> r.kind, found |-> TRUE, offset |-> o.v,
          reads |-> r.reads, vals |-> r.vals]

\* (high as u64) << 32 | low as u64
U64Of(high, low) == high * RegMod + low

\* u64 subtraction: a debug build panics on overflow, a release build wraps.
SubU64(b, x, y) ==
    IF x < y
    THEN IF b = "debug" THEN [panic |-> TRUE, v |-> 0]
         ELSE [panic |-> FALSE, v |-> x - y + RegMod * RegMod]
    ELSE [panic |-> FALSE, v |-> x - y]

\* The check of dump on one record: `limit - base != dr.size as u64`.
dr_mismatch(b, vals) ==
    LET base == U64Of(vals[3], vals[2])
        limit == U64Of(vals[5], vals[4])
        d == SubU64(b, limit, base)
    IN  [panic |-> d.panic, flag |-> ~d.panic /\ d.v # vals[6]]

\* One turn of the loop of dump, for the ring at `offset`: read_dr (its
\* failure is returned), the line of the ring printed, then the check of the
\* record, which reports a mismatch.
dump_ring(l, m, b, offset) ==
    LET dr == read_dr(l, m, offset) IN
    IF dr.kind # "ok"
    THEN [kind |-> dr.kind, row |-> FALSE, flag |-> FALSE,
          nreads |-> Len(dr.reads)]
    ELSE LET c == dr_mismatch(b, dr.vals) IN
         [kind |-> IF c.panic THEN "panic" ELSE "ok", row |-> TRUE,
          flag |-> c.flag, nreads |-> Len(dr.reads)]

\* dump(ctx): the rings of the table in the order of the map, up to the
\* first ring whose turn fails.  read4 changes nothing, so the turn of a ring
\* does not depend on the turns before it.  The result names the rings read,
\* the rings whose line was printed and the rings reported.
dump(l, m, b) ==
    LET all == get_drs
        n == Len(all)
        turns == SubSeq([i \in 1 .. n |->
                            dump_ring(l, m, b, all[i].offset)], 1, n)
        ends == {i \in 1 .. n : turns[i].kind # "ok"}
        last == IF ends = {} THEN n
                ELSE CHOOSE i \in ends : \A j \in ends : i <= j
        final == turns[last]
    IN  [kind |-> final.kind,
         read |-> [i \in 1 .. last |-> all[i].name],
         rows |-> [i \in 1 .. (IF final.row THEN last ELSE last - 1) |->
                      all[i].name],
         flagged |-> {all[i].name : i \in {j \in 1 .. last : turns[j].flag}},
         nreads |-> 11 * (last - 1) + final.nreads]

\* The window lengths drawn for the ring commands: the window of the tool,
\* and a window that ends below the rings at 0x300000 and above.
DrLens == {REGISTER_SIZE, 3145728}

\* The places, in the order of the table, of the ring whose record is drawn
\* freely: the first ring and the last ring.
SyntheticAt == {1, Len(DrInserts)}

\* The window before a ring command: the ring at place k of the table holds
\* base_addr_low, base_addr_high, limit_addr_low, limit_addr_high and size
\* as v gives them; every other word holds 0.
DrMem(k, v) ==
    LET o == get_drs[k].offset IN
    [w \in DrWords |->
        IF w \in {(o \div 4) + f : f \in 1 .. 5} THEN v[w - (o \div 4)]
        ELSE 0]

\* The names asked of show: keys of the table, and strings that are not.
DrAsk ==
    {<<"f", "m", "_", "p", "k", "t", "_", "0">>,
     <<"f", "m", "_", "p", "k", "t", "_", "1">>,
     <<"f", "m", "_", "p", "k", "t", "_", "1", " ">>,
     <<"r", "x", "_", "l", "r", "t">>,
     <<"f", "m", "_", "p", "k", "t">>,
     <<>>}

\* The short window is drawn with the free record in the first ring, which
\* lies inside it.
InitDr ==
    /\ build \in Builds
    /\ regmap = StubMap
    /\ \E k \in SyntheticAt, v \in [1 .. 5 -> RegVals], l \in DrLens :
           /\ l = REGISTER_SIZE \/ k = 1
           /\ len = l
           /\ mem = DrMem(k, v)
           /\ inp = [fn |-> "dr", at |-> k]
    /\ out = NoOp

\* One invocation of `dr list`.
DrList ==
    /\ inp.fn = "dr"
    /\ out = NoOp
    /\ out' = [op |-> "dr_list", rows |-> list]
    /\ UNCHANGED <<len, mem, build, regmap, inp>>

\* One invocation of `dr show <name>`.
DrShow ==
    /\ inp.fn = "dr"
    /\ out = NoOp
    /\ \E dr \in DrAsk :
           LET r == show(len, mem, dr) IN
           out' = [op |-> "dr_show", dr |-> dr, kind |-> r.kind,
                   found |-> r.found, offset |-> r.offset,
                   reads |-> r.reads, vals |-> r.vals]
    /\ UNCHANGED <<len, mem, build, regmap, inp>>

\* One invocation of `dr dump`.
DrDump ==
    /\ inp.fn = "dr"
    /\ out = NoOp
    /\ LET r == dump(len, mem, build) IN
       out' = [op |-> "dr_dump", kind |-> r.kind, read |-> r.read,
               rows |-> r.rows, flagged |-> r.flagged, nreads |-> r.nreads]
    /\ UNCHANGED <<len, mem, build, regmap, inp>>

NextDr == DrList \/ DrShow \/ DrDump

SpecDr == InitDr /\ [][NextDr]_vars

\* The value read for field f (a place of DrFieldNames) of the ring at place
\* i of the table.
RingVal(i, f) == mem[(get_drs[i].offset + DrFieldOffsets[f]) \div 4]

\* The 64-bit base and limit of the ring at place i, as integers.
RingBase(i) == RingVal(i, 3) * RegMod + RingVal(i, 2)

RingLimit(i) == RingVal(i, 5) * RegMod + RingVal(i, 4)

\* The names of the table, as the source gives them.
DrKeys == {DrInserts[i].name : i \in 1 .. Len(DrInserts)}

\* C11: on a window that holds every ring, whatever the base, limit and size
\* read (a limit below its base included), dump returns no error and does not
\* abort, reads and prints every ring of the table, and reports a ring
\* exactly when its limit - base differs from its size.
C11_DumpAdvisory ==
    (out.op = "dr_dump" /\ len = REGISTER_SIZE) =>
        /\ out.kind = "ok"
        /\ Len(out.rows) = Len(get_drs)
        /\ \A i \in 1 .. Len(get_drs) :
               (get_drs[i].name \in out.flagged)
                   <=> (RingLimit(i) - RingBase(i) # RingVal(i, 6))

\* C12: show fails with "no such DR" and makes no read when the name is not
\* a key of the table; when it is a key, show calls read_dr at the offset the
\* table gives for it, so the reads are at that offset plus the field
\* offsets.
C12_ShowLookup ==
    out.op = "dr_show" =>
        IF out.dr \in DrKeys
        THEN LET e == CHOOSE i \in 1 .. Len(DrInserts) :
                          DrInserts[i].name = out.dr IN
             /\ out.found
             /\ out.kind # "no_such_dr"
             /\ out.offset = DrInserts[e].offset
             /\ out.reads # <<>>
             /\ \A j \in 1 .. Len(out.reads) :
                    out.reads[j] = DrInserts[e].offset + DrFieldOffsets[j]
        ELSE /\ out.kind = "no_such_dr"
             /\ out.reads = <<>>

\* The name "fm_pkt_1", which is not a key (the key has a blank at its end),
\* was refused without a read.
C12_Witness ==
    /\ out.op = "dr_show"
    /\ out.dr = <<"f", "m", "_", "p", "k", "t", "_", "1">>
    /\ out.kind = "no_such_dr"
    /\ out.reads = <<>>

\* The insertion orders tried besides that of the source: every rotation of
\* it.
Rotated(r) ==
    SubSeq(DrInserts, r + 1, Len(DrInserts)) \o SubSeq(DrInserts, 1, r)

\* The table does not depend on the order of the m.insert calls.
InsertionOrderFree ==
    \A r \in 0 .. (Len(DrInserts) - 1) : btree_of(Rotated(r)) = get_drs

\* Whether the names of s are in strictly ascending order.
Ascending(s) == \A i \in 1 .. (Len(s) - 1) : StrLess(s[i], s[i + 1])

\* C13: list prints the 56 rings once each, in strictly ascending order of
\* their name; dump reads the rings in that same order (the whole table when
\* no read fails); and the order does not depend on the order of the
\* insertions.
C13_NameOrder ==
    /\ out.op = "dr_list" =>
           /\ Len(out.rows) = 56
           /\ Ascending([i \in 1 .. Len(out.rows) |-> out.rows[i].name])
           /\ {out.rows[i] : i \in 1 .. Len(out.rows)}
                  = {DrInserts[i] : i \in 1 .. Len(DrInserts)}
    /\ out.op = "dr_dump" =>
           /\ Ascending(out.read)
           /\ {out.read[i] : i \in 1 .. Len(out.read)} \subseteq DrKeys
           /\ \A i \in 1 .. Len(out.read) : out.read[i] = list[i].name
           /\ out.kind = "ok" => Len(out.read) = 56
    /\ out.op \in {"dr_list", "dr_dump"} => InsertionOrderFree

\* A dump read all 56 rings, the first of them not the ring inserted first.
C13_Witness ==
    /\ out.op = "dr_dump"
    /\ out.kind = "ok"
    /\ Len(out.read) = 56
    /\ out.read[1] # DrInserts[1].name
    /\ out.read[56] # DrInserts[56].name

----------------------------------------------------------------------------
(* MAC status: src/src/tftool/mac.rs *)

\* The largest MAC id that has registers in the register tree drawn; the
\* tree holds the MACs 0 .. MaxMac.
MaxMac == 33

Digits == <<"0", "1", "2", "3", "4", "5", "6", "7", "8", "9">>

RECURSIVE Dec(_)
\* format!("{}", n) of a u32: the decimal digits, without leading zeros.
Dec(n) ==
    IF n < 10 THEN <<Digits[n + 1]>>
    ELSE Dec(n \div 10) \o <<Digits[(n % 10) + 1]>>

RECURSIVE ParseDecU32(_, _)
\* The digit loop of str::parse::<u32> at the width of the program: a
\* character that is no digit, or a value above u32::MAX = 4294967295, is an
\* error.
ParseDecU32(d, acc) ==
    IF d = <<>> THEN [ok |-> TRUE, v |-> acc]
    ELSE LET x == DigitVal(Head(d), 10) IN
         IF x < 0 THEN [ok |-> FALSE, v |-> 0]
         ELSE IF acc > 429496729 \/ (acc = 429496729 /\ x > 5)
         THEN [ok |-> FALSE, v |-> 0]
         ELSE ParseDecU32(Tail(d), acc * 10 + x)

\* str::parse::<u32>: the empty string and a lone sign are errors, one
\* leading "+" is accepted.
parse_u32(src) ==
    IF src = <<>> \/ src = <<"+">> \/ src = <<"-">>
    THEN [ok |-> FALSE, v |-> 0]
    ELSE ParseDecU32(IF Head(src) = "+" THEN Tail(src) ELSE src, 0)

\* str::to_ascii_lowercase, for the letters of the MAC arguments drawn.
to_ascii_lowercase(s) ==
    [i \in 1 .. Len(s) |->
        CASE s[i] = "A" -> "a" [] s[i] = "U" -> "u" [] s[i] = "X" -> "x"
          [] s[i] = "C" -> "c" [] s[i] = "P" -> "p"
          [] OTHER -> s[i]]

RECURSIVE read_words_from(_, _, _, _, _)
\* The loop of read_offset at the width of the program, for offsets below
\* 2^31 - 4 (`offset += 4` does not overflow): read4 at offset, its failure
\* returned at once.
read_words_from(l, m, offset, left, r) ==
    IF left = 0 THEN r
    ELSE LET x == pci_read4(l, m, offset)
             called == [r EXCEPT !.reads = Append(@, offset)]
         IN  IF x.kind # "ok" THEN [called EXCEPT !.kind = x.kind]
             ELSE read_words_from(l, m, offset + 4, left - 1,
                                  [called EXCEPT !.vals = Append(@, x.val)])

\* read_register(ctx, reg, cnt): get_offset of the name (its failure is
\* returned before any read), then read_offset.
read_register(l, m, map, reg, cnt) ==
    LET o == get_offset(map, reg) IN
    IF ~o.ok
    THEN [kind |-> "no_register", reads |-> <<>>, vals |-> <<>>]
    ELSE read_words_from(l, m, o.v, cnt,
                         [kind |-> "ok", reads |-> <<>>, vals |-> <<>>])

Eth100gPath ==
    <<"e", "t", "h", "1", "0", "0", "g", "_", "r", "e", "g", "s", ".",
      "e", "t", "h", "1", "0", "0", "g", "_", "r", "e", "g", ".",
      "e", "t", "h", "_", "s", "t", "a", "t", "u", "s">>

\* format!("eth400g_p{}.eth400g_mac", mac)
Eth400gBase(mac) ==
    <<"e", "t", "h", "4", "0", "0", "g", "_", "p">> \o Dec(mac)
        \o <<".", "e", "t", "h", "4", "0", "0", "g", "_", "m", "a", "c">>

\* format!("{}.eth_status0", base) and format!("{}.eth_status1", base)
Eth400gPath(mac, j) ==
    Eth400gBase(mac) \o <<".", "e", "t", "h", "_", "s", "t", "a", "t", "u",
                         "s">> \o Dec(j)

\* The calls of get_bits made on `words` words for the ranges of a table, as
\* far as the first that panics.
CallsOf(table, words, upto) ==
    [i \in 1 .. upto |->
        [words |-> words, start |-> table[i].start, end |-> table[i].end]]

\* The bit ranges eth100g_status passes to get_bits, in order.
Eth100gBits ==
    <<[name |-> "macsts_sigok", start |-> 0, end |-> 3],
      [name |-> "macsts_txidle", start |-> 4, end |-> 7],
      [name |-> "macsts_rxidle", start |-> 8, end |-> 11],
      [name |-> "macsts_txgood", start |-> 12, end |-> 15]>>

\* The bit ranges eth400g_status passes to get_bits, in order: four of stat0,
\* then four of stat1.
Eth400gBits ==
    <<[name |-> "macsts_lfault", start |-> 0, end |-> 7],
      [name |-> "macsts_rfault", start |-> 8, end |-> 15],
      [name |-> "macsts_ofault", start |-> 16, end |-> 23],
      [name |-> "macsts_linkup", start |-> 24, end |-> 31],
      [name |-> "macsts_sigok", start |-> 0, end |-> 7],
      [name |-> "macsts_txidle", start |-> 8, end |-> 15],
      [name |-> "macsts_rxidle", start |-> 16, end |-> 23],
      [name |-> "macsts_txgood", start |-> 24, end |-> 31]>>

\* The calls of get_bits eth400g_status makes: four on stat0 and four on
\* stat1, each the one word read_register(.., 1) returned.
Eth400gCalls ==
    CallsOf(SubSeq(Eth400gBits, 1, 4), 1, 4)
        \o CallsOf(SubSeq(Eth400gBits, 5, 8), 1, 4)

\* eth100g_status: one read_register of one word, then the four fields
\* extracted from it.  st lists the lookups made, the offsets read and the
\* calls of get_bits made so far.
eth100g_status(l, m, map, st) ==
    LET val == read_register(l, m, map, Eth100gPath, 1) IN
    [kind |-> val.kind, lookups |-> Append(st.lookups, Eth100gPath),
     reads |-> st.reads \o val.reads, rows |-> st.rows,
     calls |-> IF val.kind # "ok" THEN st.calls
               ELSE st.calls \o CallsOf(Eth100gBits, Len(val.vals), 4)]

\* eth400g_status(ctx, mac): eth_status0 read, then eth_status1; the first
\* failure is returned at once; then the eight fields extracted.
eth400g_status(l, m, map, mac, st) ==
    LET stat0 == read_register(l, m, map, Eth400gPath(mac, 0), 1)
        s0 == [kind |-> stat0.kind,
               lookups |-> Append(st.lookups, Eth400gPath(mac, 0)),
               reads |-> st.reads \o stat0.reads, rows |-> st.rows,
               calls |-> st.calls]
    IN  IF stat0.kind # "ok" THEN s0
        ELSE LET stat1 == read_register(l, m, map, Eth400gPath(mac, 1), 1)
             IN  [kind |-> stat1.kind,
                  lookups |-> Append(s0.lookups, Eth400gPath(mac, 1)),
                  reads |-> s0.reads \o stat1.reads, rows |-> st.rows,
                  calls |-> IF stat1.kind # "ok" THEN st.calls
                            ELSE st.calls \o Eth400gCalls]

\* What a MAC command has done before its first lookup.
MacStart ==
    [kind |-> "ok", lookups |-> <<>>, reads |-> <<>>, rows |-> <<>>,
     calls |-> <<>>]

\* show_aux and show_eth400g: the status read, then its lines printed.
show_aux(l, m, map) ==
    LET s == eth100g_status(l, m, map, MacStart) IN
    IF s.kind # "ok" THEN s ELSE [s EXCEPT !.rows = <<"aux">>]

show_eth400g(l, m, map, mac) ==
    LET s == eth400g_status(l, m, map, mac, MacStart) IN
    IF s.kind # "ok" THEN s ELSE [s EXCEPT !.rows = <<mac>>]

\* The loop `for mac in first..=last` over eth400g_status, the line of a MAC
\* printed after its status is read, the first failure returned at once.
\* read4 changes nothing, so the turn of a MAC does not depend on the turns
\* before it; a turn that succeeds makes two lookups, two reads and eight calls of
\* get_bits.
show_all_over(l, m, map, first, last) ==
    LET n == last - first + 1
        turns == SubSeq([k \in 1 .. n |->
                            eth400g_status(l, m, map, first + k - 1,
                                           MacStart)], 1, n)
        ends == {k \in 1 .. n : turns[k].kind # "ok"}
        stop == IF ends = {} THEN n
                ELSE CHOOSE k \in ends : \A j \in ends : k <= j
        final == turns[stop]
    IN  [kind |-> final.kind,
         lookups |-> [k \in 1 .. (2 * (stop - 1) + Len(final.lookups)) |->
                         turns[(k + 1) \div 2].lookups[((k - 1) % 2) + 1]],
         reads |-> [k \in 1 .. (2 * (stop - 1) + Len(final.reads)) |->
                       turns[(k + 1) \div 2].reads[((k - 1) % 2) + 1]],
         rows |-> [k \in 1 .. (IF final.kind = "ok" THEN stop ELSE stop - 1)
                      |-> first + k - 1],
         calls |-> [k \in 1 .. (8 * (IF final.kind = "ok" THEN stop
                                     ELSE stop - 1)) |->
                       Eth400gCalls[((k - 1) % 8) + 1]]]

\* A plausible slip: the MACs 1 to 32, the documented range.
show_all_eth400g_inclusive(l, m, map) == show_all_over(l, m, map, 1, 32)

\* show_all_eth400g: `for mac in 1..32`, the MACs 1 to 31.
show_all_eth400g(l, m, map) == show_all_over(l, m, map, 1, 32 - 1)

\* status(ctx, mac): "aux" or "cpu" in any case, else a string that parses
\* as a u32, else "invalid mac"; without an argument, every MAC.
status(l, m, map, mac) ==
    IF mac.some
    THEN IF to_ascii_lowercase(mac.v) = <<"a", "u", "x">>
            \/ to_ascii_lowercase(mac.v) = <<"c", "p", "u">>
         THEN [branch |-> "aux"] @@ show_aux(l, m, map)
         ELSE LET p == parse_u32(mac.v) IN
              IF p.ok
              THEN [branch |-> "one"] @@ show_eth400g(l, m, map, p.v)
              ELSE [branch |-> "invalid"]
                       @@ [MacStart EXCEPT !.kind = "invalid_mac"]
    ELSE [branch |-> "all"] @@ show_all_eth400g(l, m, map)

\* The register tree of the MAC commands: for every MAC k of 0 .. MaxMac, in
\* ascending order, the nodes eth400g_p{k}, eth400g_mac, eth_status0 and
\* eth_status1, then eth100g_regs, eth100g_reg and eth_status.  gone names a
\* register the tree lacks: its node has another name.
MacMap(gone) ==
    LET nm == MaxMac + 1
        n == 4 * nm + 3
    IN  [stub |-> FALSE, n |-> n,
         parent |-> [i \in 1 .. n |->
                        IF i > 4 * nm THEN (IF i = 4 * nm + 1 THEN 0 ELSE i - 1)
                        ELSE CASE (i - 1) % 4 = 0 -> 0
                               [] (i - 1) % 4 = 1 -> i - 1
                               [] (i - 1) % 4 = 2 -> i - 1
                               [] (i - 1) % 4 = 3 -> i - 2],
         name |-> [i \in 1 .. n |->
                      LET k == (i - 1) \div 4 IN
                      IF i = 4 * nm + 1
                      THEN SubSeq(Eth100gPath, 1, 12)
                      ELSE IF i = 4 * nm + 2
                      THEN SubSeq(Eth100gPath, 14, 24)
                      ELSE IF i = 4 * nm + 3
                      THEN SubSeq(Eth100gPath, 26, 35)
                      ELSE IF gone.some /\ gone.mac = k
                              /\ (i - 1) % 4 = 2 + gone.reg
                      THEN <<"-">>
                      ELSE CASE (i - 1) % 4 = 0 ->
                                   SubSeq(Eth400gBase(k), 1,
                                          9 + Len(Dec(k)))
                             [] (i - 1) % 4 = 1 ->
                                   <<"e", "t", "h", "4", "0", "0", "g", "_",
                                     "m", "a", "c">>
                             [] (i - 1) % 4 = 2 ->
                                   <<"e", "t", "h", "_", "s", "t", "a", "t",
                                     "u", "s", "0">>
                             [] (i - 1) % 4 = 3 ->
                                   <<"e", "t", "h", "_", "s", "t", "a", "t",
                                     "u", "s", "1">>]]

\* The registers a tree may lack: none, or one status register of one MAC.
MacGone ==
    {[some |-> FALSE, mac |-> 0, reg |-> 0]}
        \cup [some : {TRUE}, mac : 0 .. MaxMac, reg : {0, 1}]

\* The window lengths drawn for the MAC commands: the window of the tool,
\* and a window that ends inside the registers of the middle MAC.
MacLens == {REGISTER_SIZE, 16 * (MaxMac \div 2) + 12}

\* The arguments drawn for `mac status`.
MacArgs ==
    {[some |-> FALSE, v |-> <<>>]}
        \cup [some : {TRUE},
              v : {<<"a", "u", "x">>, <<"A", "U", "X">>, <<"c", "p", "u">>,
                   <<"C", "p", "u">>, <<"0">>, <<"1">>, <<"3", "2">>,
                   <<"3", "3">>, <<"+", "5">>, <<"0", "7">>, <<"-", "1">>,
                   <<"a", "u", "x", "1">>, <<"x">>, <<>>,
                   <<"4", "2", "9", "4", "9", "6", "7", "2", "9", "6">>}]

InitMac ==
    /\ len \in MacLens
    /\ build = "release"
    /\ \E gone \in MacGone :
           /\ regmap = MacMap(gone)
           /\ inp = [fn |-> "mac", gone |-> gone]
    /\ mem = [w \in 0 .. (4 * MaxMac + 6) |-> w % (MaxVal + 1)]
    /\ out = NoOp

\* One invocation of `mac status [mac]`.
MacStatus ==
    /\ inp.fn = "mac"
    /\ out = NoOp
    /\ \E mac \in MacArgs :
           out' = [op |-> "mac_status", mac |-> mac]
                      @@ status(len, mem, regmap, mac)
    /\ UNCHANGED <<len, mem, build, regmap, inp>>

NextMac == MacStatus

SpecMac == InitMac /\ [][NextMac]_vars

\* Whether status register j of a MAC can be read: its name resolves and the
\* read of its word succeeds.
MacReadable(mac, j) ==
    read_register(len, mem, regmap, Eth400gPath(mac, j), 1).kind = "ok"

\* The k-th register of the order MAC 1 status 0, MAC 1 status 1, MAC 2
\* status 0, ...
MacOfTurn(k) == 1 + (k - 1) \div 2

RegOfTurn(k) == (k - 1) % 2

IsDecimal(s) ==
    s # <<>> /\ \A i \in 1 .. Len(s) : DigitVal(s[i], 10) >= 0

\* C17: status accepts as its MAC argument "aux" or "cpu" in any letter case
\* and a decimal number in 1..=32; every other argument, the numbers 0 and
\* 33 and above included, gets "invalid mac" with no lookup and no read.
C17_MacArgument ==
    (out.op = "mac_status" /\ out.mac.some) =>
        IF \/ to_ascii_lowercase(out.mac.v) \in {<<"a", "u", "x">>,
                                                 <<"c", "p", "u">>}
           \/ /\ IsDecimal(out.mac.v)
              /\ parse_u32(out.mac.v).ok
              /\ parse_u32(out.mac.v).v \in 1 .. 32
        THEN out.branch \in {"aux", "one"}
        ELSE /\ out.kind = "invalid_mac"
             /\ out.lookups = <<>>
             /\ out.reads = <<>>

----------------------------------------------------------------------------
(* parse_val as a function of its string: src/crates/tftool/src/lib.rs,      *)
(* src/src/tftool/main.rs                                                    *)

\* The longest string drawn for parse_val.
MaxStr == 5

\* The characters of the strings drawn: digits, a hexadecimal letter, the
\* letter of the prefix and the signs.
ParseChars == {"0", "1", "6", "f", "x", "+", "-"}

InitParse ==
    /\ len = MaxLen
    /\ mem = [w \in MemWords |-> 0]
    /\ build = "release"
    /\ regmap = StubMap
    /\ inp \in [fn : {"parse_val"}, s : SeqsUpTo(ParseChars, MaxStr)]
    /\ out = NoOp

ParseVal ==
    /\ inp.fn = "parse_val"
    /\ out = NoOp
    /\ LET r == parse_val(inp.s) IN
       out' = [op |-> "parse_val", ok |-> r.ok, v |-> r.v]
    /\ UNCHANGED <<len, mem, build, regmap, inp>>

NextParse == ParseVal

SpecParse == InitParse /\ [][NextParse]_vars

\* Whether s is a non-empty string of hexadecimal digits.
IsHex(s) == s # <<>> /\ \A i \in 1 .. Len(s) : DigitVal(s[i], 16) >= 0

RECURSIVE NumVal(_, _)
\* The number a string of digits denotes in the radix.
NumVal(s, radix) ==
    IF s = <<>> THEN 0
    ELSE NumVal(SubSeq(s, 1, Len(s) - 1), radix) * radix
             + DigitVal(s[Len(s)], radix)

\* C15: parse_val succeeds exactly on a non-empty string of decimal digits
\* and on "0x" followed by a non-empty string of hexadecimal digits, when
\* the number denoted fits a u32, and then returns that number; every other
\* string is an error.
C15_ParseValExact ==
    out.op = "parse_val" =>
        LET s == inp.s
            hex == SubSeq(s, 3, Len(s))
        IN  IF IsDecimal(s) /\ NumVal(s, 10) < U32Mod
            THEN out.ok /\ out.v = NumVal(s, 10)
            ELSE IF starts_with_0x(s) /\ IsHex(hex) /\ NumVal(hex, 16) < U32Mod
            THEN out.ok /\ out.v = NumVal(hex, 16)
            ELSE ~out.ok

----------------------------------------------------------------------------
(* Fuse: src/crates/tofino/src/fuse.rs and src/src/tftool/fuse.rs *)

\* Offset of the first register holding fuse data, 0x80180.
FUSE_OFFSET == 524672

\* Number of 4-byte words of fuse data.
FUSE_SIZE == 16

\* The longest word list handed to try_from_slice: one more than FUSE_SIZE.
MaxFuseLen == 17

\* A plausible slip: part_num taken at the 13 bits the struct documents, bit
\* 301 left to no field.
FuseFieldsAsDocumented ==
    <<[name |-> "device_id", start |-> 0, end |-> 15],
      [name |-> "version", start |-> 16, end |-> 17],
      [name |-> "freq_dis", start |-> 18, end |-> 18],
      [name |-> "freq_bps", start |-> 19, end |-> 20],
      [name |-> "freq_pps", start |-> 21, end |-> 22],
      [name |-> "pcie_dis", start |-> 23, end |-> 24],
      [name |-> "cpu_speed_dis", start |-> 25, end |-> 26],
      [name |-> "speed_dis", start |-> 27, end |-> 90],
      [name |-> "port_dis", start |-> 91, end |-> 130],
      [name |-> "pipe_dis", start |-> 131, end |-> 134],
      [name |-> "pipe0_mau_dis", start |-> 135, end |-> 155],
      [name |-> "pipe1_mau_dis", start |-> 156, end |-> 176],
      [name |-> "pipe2_mau_dis", start |-> 177, end |-> 197],
      [name |-> "pipe3_mau_dis", start |-> 198, end |-> 218],
      [name |-> "tm_mem_dis", start |-> 219, end |-> 250],
      [name |-> "bsync_dis", start |-> 251, end |-> 251],
      [name |-> "pgen_dis", start |-> 252, end |-> 252],
      [name |-> "resub_dis", start |-> 253, end |-> 253],
      [name |-> "voltage_scaling", start |-> 254, end |-> 265],
      [name |-> "rsvd_22", start |-> 266, end |-> 287],
      [name |-> "part_num", start |-> 288, end |-> 300],
      [name |-> "rev_num", start |-> 302, end |-> 309],
      [name |-> "pkg_id", start |-> 310, end |-> 311],
      [name |-> "silent_spin", start |-> 312, end |-> 313],
      [name |-> "chip_id", start |-> 314, end |-> 376],
      [name |-> "pmro_and_skew", start |-> 377, end |-> 388],
      [name |-> "wf_core_repair", start |-> 389, end |-> 389],
      [name |-> "core_repair", start |-> 390, end |-> 390],
      [name |-> "tile_repair", start |-> 391, end |-> 391],
      [name |-> "freq_bps_2", start |-> 392, end |-> 395],
      [name |-> "freq_pps_2", start |-> 396, end |-> 399],
      [name |-> "die_rotation", start |-> 400, end |-> 400],
      [name |-> "soft_pipe_dis", start |-> 401, end |-> 404]>>

\* The fields of Fuse in the order of the struct, each with the bit range
\* try_from_slice passes to get_bits.
FuseFields ==
    <<[name |-> "device_id", start |-> 0, end |-> 15],
      [name |-> "version", start |-> 16, end |-> 17],
      [name |-> "freq_dis", start |-> 18, end |-> 18],
      [name |-> "freq_bps", start |-> 19, end |-> 20],
      [name |-> "freq_pps", start |-> 21, end |-> 22],
      [name |-> "pcie_dis", start |-> 23, end |-> 24],
      [name |-> "cpu_speed_dis", start |-> 25, end |-> 26],
      [name |-> "speed_dis", start |-> 27, end |-> 90],
      [name |-> "port_dis", start |-> 91, end |-> 130],
      [name |-> "pipe_dis", start |-> 131, end |-> 134],
      [name |-> "pipe0_mau_dis", start |-> 135, end |-> 155],
      [name |-> "pipe1_mau_dis", start |-> 156, end |-> 176],
      [name |-> "pipe2_mau_dis", start |-> 177, end |-> 197],
      [name |-> "pipe3_mau_dis", start |-> 198, end |-> 218],
      [name |-> "tm_mem_dis", start |-> 219, end |-> 250],
      [name |-> "bsync_dis", start |-> 251, end |-> 251],
      [name |-> "pgen_dis", start |-> 252, end |-> 252],
      [name |-> "resub_dis", start |-> 253, end |-> 253],
      [name |-> "voltage_scaling", start |-> 254, end |-> 265],
      [name |-> "rsvd_22", start |-> 266, end |-> 287],
      [name |-> "part_num", start |-> 288, end |-> 301],
      [name |-> "rev_num", start |-> 302, end |-> 309],
      [name |-> "pkg_id", start |-> 310, end |-> 311],
      [name |-> "silent_spin", start |-> 312, end |-> 313],
      [name |-> "chip_id", start |-> 314, end |-> 376],
      [name |-> "pmro_and_skew", start |-> 377, end |-> 388],
      [name |-> "wf_core_repair", start |-> 389, end |-> 389],
      [name |-> "core_repair", start |-> 390, end |-> 390],
      [name |-> "tile_repair", start |-> 391, end |-> 391],
      [name |-> "freq_bps_2", start |-> 392, end |-> 395],
      [name |-> "freq_pps_2", start |-> 396, end |-> 399],
      [name |-> "die_rotation", start |-> 400, end |-> 400],
      [name |-> "soft_pipe_dis", start |-> 401, end |-> 404]>>

\* A plausible slip: port_disable_map_lo taken with the bit of
\* port_disable_map_hi, 65 bits.
DumpFuseFieldsWide ==
    <<[name |-> "resubmit_disable", start |-> 1, end |-> 1],
      [name |-> "mau_tcam_reduction", start |-> 2, end |-> 2],
      [name |-> "mau_sram_reduction", start |-> 3, end |-> 3],
      [name |-> "packet_generator_disable", start |-> 4, end |-> 4],
      [name |-> "pipe_disable", start |-> 5, end |-> 8],
      [name |-> "mau_stage_disable", start |-> 9, end |-> 20],
      [name |-> "port_disable_map_lo", start |-> 21, end |-> 85],
      [name |-> "port_disable_map_hi", start |-> 85, end |-> 85],
      [name |-> "tm_memory_disable", start |-> 86, end |-> 121],
      [name |-> "port_speed_reduction", start |-> 126, end |-> 127],
      [name |-> "cpu_port_speed_reduction", start |-> 128, end |-> 129],
      [name |-> "pcie_lane_reduction", start |-> 130, end |-> 131],
      [name |-> "baresync_disable", start |-> 132, end |-> 132],
      [name |-> "frequency_reduction", start |-> 133, end |-> 134],
      [name |-> "frequency_check_disable", start |-> 135, end |-> 135],
      [name |-> "versioning", start |-> 139, end |-> 140],
      [name |-> "chip_part_number", start |-> 151, end |-> 155],
      [name |-> "part_revision_number", start |-> 156, end |-> 163],
      [name |-> "package_id", start |-> 164, end |-> 165],
      [name |-> "silent_spin", start |-> 166, end |-> 167],
      [name |-> "pmro_and_skew", start |-> 231, end |-> 242],
      [name |-> "voltage_scaling", start |-> 243, end |-> 245],
      [name |-> "chip_id", start |-> 168, end |-> 230],
      [name |-> "wafer id", start |-> 168, end |-> 230]>>

\* The calls of get_bits dump_fuse makes on the words it read, in order: the
\* print_field lines, then the chip id of the wafer line.
DumpFuseFields ==
    <<[name |-> "resubmit_disable", start |-> 1, end |-> 1],
      [name |-> "mau_tcam_reduction", start |-> 2, end |-> 2],
      [name |-> "mau_sram_reduction", start |-> 3, end |-> 3],
      [name |-> "packet_generator_disable", start |-> 4, end |-> 4],
      [name |-> "pipe_disable", start |-> 5, end |-> 8],
      [name |-> "mau_stage_disable", start |-> 9, end |-> 20],
      [name |-> "port_disable_map_lo", start |-> 21, end |-> 84],
      [name |-> "port_disable_map_hi", start |-> 85, end |-> 85],
      [name |-> "tm_memory_disable", start |-> 86, end |-> 121],
      [name |-> "port_speed_reduction", start |-> 126, end |-> 127],
      [name |-> "cpu_port_speed_reduction", start |-> 128, end |-> 129],
      [name |-> "pcie_lane_reduction", start |-> 130, end |-> 131],
      [name |-> "baresync_disable", start |-> 132, end |-> 132],
      [name |-> "frequency_reduction", start |-> 133, end |-> 134],
      [name |-> "frequency_check_disable", start |-> 135, end |-> 135],
      [name |-> "versioning", start |-> 139, end |-> 140],
      [name |-> "chip_part_number", start |-> 151, end |-> 155],
      [name |-> "part_revision_number", start |-> 156, end |-> 163],
      [name |-> "package_id", start |-> 164, end |-> 165],
      [name |-> "silent_spin", start |-> 166, end |-> 167],
      [name |-> "pmro_and_skew", start |-> 231, end |-> 242],
      [name |-> "voltage_scaling", start |-> 243, end |-> 245],
      [name |-> "chip_id", start |-> 168, end |-> 230],
      [name |-> "wafer id", start |-> 168, end |-> 230]>>

\* "device_select.misc_regs.func_fuse", the register read_fuse reads in a
\* build with the register map.
FUSE_NAME ==
    <<"d", "e", "v", "i", "c", "e", "_", "s", "e", "l", "e", "c", "t", ".",
      "m", "i", "s", "c", "_", "r", "e", "g", "s", ".",
      "f", "u", "n", "c", "_", "f", "u", "s", "e">>

\* get_bits at the width of the program.  A u32 word is the set of its set
\* bits (0 .. 31) and the u64 result is four 16-bit limbs.  The loop runs idx
\* from end down to start: regs[word] panics at the first idx, before a bit is
\* accumulated, when end lies outside regs (word only decreases afterwards);
\* `rval << 1` drops bit 63, so of a range wider than 64 bits the last 64
\* accumulated, start .. start + 63, remain; bit idx lands at idx - start.
get_bits_wide(regs, start, end) ==
    IF start > end THEN [panic |-> FALSE, rval |-> U64OfBits({})]
    ELSE IF end \div 32 >= Len(regs)
    THEN [panic |-> TRUE, rval |-> U64OfBits({})]
    ELSE [panic |-> FALSE,
          rval |-> U64OfBits({j \in 0 .. 63 :
                                 /\ start + j <= end
                                 /\ ((start + j) % 32)
                                        \in regs[((start + j) \div 32) + 1]})]

\* crate::common::get_bits of the tofino crate: the same loop, taking bit
\* indices above 255.
common_get_bits(data, start, end) == get_bits_wide(data, start, end)

\* A plausible slip: only a list that is too short is rejected.
try_from_slice_at_least(data) ==
    IF Len(data) < FUSE_SIZE
    THEN [kind |-> "length", calls |-> <<>>, fuse |-> <<>>]
    ELSE LET n == Len(FuseFields)
             got == SubSeq([i \in 1 .. n |->
                               common_get_bits(data, FuseFields[i].start,
                                               FuseFields[i].end)], 1, n)
             bad == {i \in 1 .. n : got[i].panic}
         IN  IF bad # {}
             THEN [kind |-> "panic",
                   calls |-> CallsOf(FuseFields, Len(data),
                                     CHOOSE i \in bad :
                                         \A j \in bad : i <= j),
                   fuse |-> <<>>]
             ELSE [kind |-> "ok",
                   calls |-> CallsOf(FuseFields, Len(data), n),
                   fuse |-> [i \in 1 .. n |-> got[i].rval]]

\* Fuse::try_from_slice: the length check first, then one get_bits per field
\* in the order of the struct.  fuse holds the field values in the order of
\* FuseFields.
try_from_slice(data) ==
    IF Len(data) # FUSE_SIZE
    THEN [kind |-> "length", calls |-> <<>>, fuse |-> <<>>]
    ELSE LET n == Len(FuseFields)
             got == SubSeq([i \in 1 .. n |->
                               common_get_bits(data, FuseFields[i].start,
                                               FuseFields[i].end)], 1, n)
             bad == {i \in 1 .. n : got[i].panic}
         IN  IF bad # {}
             THEN [kind |-> "panic",
                   calls |-> CallsOf(FuseFields, Len(data),
                                     CHOOSE i \in bad :
                                         \A j \in bad : i <= j),
                   fuse |-> <<>>]
             ELSE [kind |-> "ok",
                   calls |-> CallsOf(FuseFields, Len(data), n),
                   fuse |-> [i \in 1 .. n |-> got[i].rval]]

RECURSIVE read_raw_from(_, _, _, _, _)
\* The loop of read_raw with `left` turns to go: read4 at offset, its failure
\* returned at once, else the word pushed and offset advanced by 4 (from
\* FUSE_OFFSET the u32 does not overflow).
read_raw_from(l, m, offset, left, r) ==
    IF left = 0 THEN r
    ELSE LET x == pci_read4(l, m, offset)
             called == [r EXCEPT !.reads = Append(@, offset)]
         IN  IF x.kind # "ok"
             THEN [called EXCEPT !.kind = x.kind, !.vals = <<>>]
             ELSE read_raw_from(l, m, offset + 4, left - 1,
                                [called EXCEPT !.vals = Append(@, x.val)])

\* read_raw: FUSE_SIZE words from FUSE_OFFSET.
read_raw(l, m) ==
    read_raw_from(l, m, FUSE_OFFSET, FUSE_SIZE,
                  [kind |-> "ok", reads |-> <<>>, vals |-> <<>>])

\* Fuse::read: try_from_slice of read_raw, the failure of read_raw returned
\* before try_from_slice is called.
fuse_read(l, m) ==
    LET raw == read_raw(l, m) IN
    IF raw.kind # "ok"
    THEN [kind |-> raw.kind, reads |-> raw.reads, data |-> <<>>,
          calls |-> <<>>, fuse |-> <<>>]
    ELSE [reads |-> raw.reads, data |-> raw.vals] @@ try_from_slice(raw.vals)

\* read_fuse: with the register map, read_register of FUSE_NAME; without it,
\* read_offset at 0x80180; 8 words either way.
read_fuse(l, m, map) ==
    IF map.stub
    THEN read_words_from(l, m, 524672, 8,
                         [kind |-> "ok", reads |-> <<>>, vals |-> <<>>])
    ELSE read_register(l, m, map, FUSE_NAME, 8)

\* dump_fuse: read_fuse, the length check, one get_bits per printed field and
\* one more for the wafer line.  rows counts the lines printed.
dump_fuse(l, m, map) ==
    LET r == read_fuse(l, m, map) IN
    IF r.kind # "ok"
    THEN [kind |-> r.kind, reads |-> r.reads, calls |-> <<>>, rows |-> 0]
    ELSE IF Len(r.vals) # 8
    THEN [kind |-> "length", reads |-> r.reads, calls |-> <<>>, rows |-> 0]
    ELSE LET n == Len(DumpFuseFields)
             got == SubSeq([i \in 1 .. n |->
                               get_bits_wide(r.vals, DumpFuseFields[i].start,
                                             DumpFuseFields[i].end)], 1, n)
             bad == {i \in 1 .. n : got[i].panic}
             stop == IF bad = {} THEN n
                     ELSE CHOOSE i \in bad : \A j \in bad : i <= j
         IN  [kind |-> IF bad = {} THEN "ok" ELSE "panic",
              reads |-> r.reads,
              calls |-> CallsOf(DumpFuseFields, Len(r.vals), stop),
              rows |-> IF bad = {} THEN n ELSE stop - 1]

\* The register tree of a build with the register map, as far as dump_fuse
\* uses it: device_select, misc_regs and func_fuse, one below the other.
FuseMap ==
    [stub |-> FALSE, n |-> 3, parent |-> <<0, 1, 2>>,
     name |-> <<SubSeq(FUSE_NAME, 1, 13), SubSeq(FUSE_NAME, 15, 23),
                SubSeq(FUSE_NAME, 25, 33)>>]

\* The bits drawn for the fuse data: the ends of every range extracted, the
\* first bit past the last field and the last bit of the data.
FuseBitsDrawn ==
    {FuseFields[i].start : i \in 1 .. Len(FuseFields)}
        \cup {FuseFields[i].end : i \in 1 .. Len(FuseFields)}
        \cup {DumpFuseFields[i].start : i \in 1 .. Len(DumpFuseFields)}
        \cup {DumpFuseFields[i].end : i \in 1 .. Len(DumpFuseFields)}
        \cup {405, 511}

\* Word i (from 0) of the fuse data with the single bit p set, or, for inv,
\* with every bit but p set.
FuseWord(p, inv, i) ==
    LET one == IF p \div 32 = i THEN {p % 32} ELSE {} IN
    IF inv THEN (0 .. 31) \ one ELSE one

\* The words of the window the fuse commands read: those from FUSE_OFFSET,
\* and those of func_fuse in FuseMap.
FuseWords ==
    ((FUSE_OFFSET \div 4) .. (FUSE_OFFSET \div 4 + FUSE_SIZE - 1))
        \cup ((OffsetOf(3) \div 4) .. (OffsetOf(3) \div 4 + FUSE_SIZE - 1))

FuseMem(p, inv) ==
    [w \in FuseWords |->
        FuseWord(p, inv, IF w >= FUSE_OFFSET \div 4
                         THEN w - FUSE_OFFSET \div 4
                         ELSE w - OffsetOf(3) \div 4)]

\* The window lengths drawn: the window of the tool, one that ends inside
\* the first 8 fuse words and one that ends inside the last 8.
FuseLens == {REGISTER_SIZE, FUSE_OFFSET + 4 * 5 + 4, FUSE_OFFSET + 4 * 10 + 4}

InitFuse ==
    /\ build = "release"
    /\ \E p \in FuseBitsDrawn, inv \in BOOLEAN :
           /\ mem = FuseMem(p, inv)
           /\ \/ /\ len = REGISTER_SIZE
                 /\ regmap = StubMap
                 /\ \E n \in 0 .. MaxFuseLen :
                        inp = [fn |-> "try_from_slice", bit |-> p,
                               inv |-> inv,
                               data |-> [i \in 1 .. n |->
                                            FuseWord(p, inv, i - 1)]]
              \/ /\ len \in FuseLens
                 /\ regmap = StubMap
                 /\ inp = [fn |-> "fuse_read", bit |-> p, inv |-> inv,
                           data |-> <<>>]
              \/ /\ len \in FuseLens
                 /\ regmap \in {StubMap, FuseMap}
                 /\ inp = [fn |-> "dump_fuse", bit |-> p, inv |-> inv,
                           data |-> <<>>]
    /\ out = NoOp

\* Fuse::try_from_slice on a word list.
TryFromSlice ==
    /\ inp.fn = "try_from_slice"
    /\ out = NoOp
    /\ LET r == try_from_slice(inp.data) IN
       out' = [op |-> "try_from_slice", kind |-> r.kind, reads |-> <<>>,
               data |-> inp.data, calls |-> r.calls, fuse |-> r.fuse]
    /\ UNCHANGED <<len, mem, build, regmap, inp>>

\* Fuse::read on the window.
FuseRead ==
    /\ inp.fn = "fuse_read"
    /\ out = NoOp
    /\ LET r == fuse_read(len, mem) IN
       out' = [op |-> "fuse_read", kind |-> r.kind, reads |-> r.reads,
               data |-> r.data, calls |-> r.calls, fuse |-> r.fuse]
    /\ UNCHANGED <<len, mem, build, regmap, inp>>

\* The `fuse` command of tftool.
DumpFuse ==
    /\ inp.fn = "dump_fuse"
    /\ out = NoOp
    /\ LET r == dump_fuse(len, mem, regmap) IN
       out' = [op |-> "dump_fuse", kind |-> r.kind, reads |-> r.reads,
               calls |-> r.calls, rows |-> r.rows]
    /\ UNCHANGED <<len, mem, build, regmap, inp>>

NextFuse == TryFromSlice \/ FuseRead \/ DumpFuse

SpecFuse == InitFuse /\ [][NextFuse]_vars

\* The offset of the i-th read of read_raw, i from 0.
FuseReadAt(i) == FUSE_OFFSET + 4 * i

\* The turns of read_raw whose read4 fails on the window.
FuseFailing ==
    {i \in 0 .. (FUSE_SIZE - 1) :
        pci_read4(len, mem, FuseReadAt(i)).kind # "ok"}

\* C16: try_from_slice fails with the length error, extracting no field, for
\* every list that is not 16 words long, and succeeds for every list of 16
\* words; Fuse::read reads the offsets 0x80180 + 4 * i for i = 0 .. 15 in
\* ascending order, decodes the 16 words read, and fails with the error of
\* the first failing read, after which it reads no more.
C16_FuseLengthAndReads ==
    /\ out.op = "try_from_slice" =>
           IF Len(inp.data) = 16
           THEN out.kind = "ok" /\ Len(out.fuse) = Len(FuseFields)
           ELSE out.kind = "length" /\ out.calls = <<>> /\ out.fuse = <<>>
    /\ out.op = "fuse_read" =>
           IF FuseFailing = {}
           THEN /\ out.reads = [i \in 1 .. 16 |-> FuseReadAt(i - 1)]
                /\ out.data = [i \in 1 .. 16 |->
                                  mem[FuseReadAt(i - 1) \div 4]]
                /\ out.kind = "ok"
                /\ out.fuse = try_from_slice(out.data).fuse
           ELSE LET first == CHOOSE i \in FuseFailing :
                                 \A j \in FuseFailing : i <= j
                IN  /\ out.reads = [i \in 1 .. (first + 1) |->
                                       FuseReadAt(i - 1)]
                    /\ out.kind = pci_read4(len, mem, FuseReadAt(first)).kind
                    /\ out.calls = <<>>
                    /\ out.fuse = <<>>

\* Fuse::read failed at a read that followed successful ones.
C16_Witness ==
    /\ out.op = "fuse_read"
    /\ out.kind = "outside"
    /\ Len(out.reads) > 1
    /\ Len(out.reads) < 16
    /\ out.fuse = <<>>

----------------------------------------------------------------------------
(* The callers of get_bits: the fuse decoders and the MAC status readers *)

InitDecode == InitFuse \/ InitMac

NextDecode == TryFromSlice \/ FuseRead \/ DumpFuse \/ MacStatus

SpecDecode == InitDecode /\ [][NextDecode]_vars

\* The number of words each decoder passes to get_bits.
WordsPassed ==
    CASE out.op \in {"try_from_slice", "fuse_read"} -> 16
      [] out.op = "dump_fuse" -> 8
      [] out.op = "mac_status" -> 1

\* C18: every call of get_bits made by Fuse::try_from_slice (on 16 words),
\* by dump_fuse (on 8 words) and by the MAC status readers (on 1 word) has
\* start <= end, end < 32 * (the number of words passed) and
\* end - start < 64, so none of them panics.
C18_CallersInRange ==
    out.op \in {"try_from_slice", "fuse_read", "dump_fuse", "mac_status"} =>
        /\ out.kind # "panic"
        /\ \A i \in 1 .. Len(out.calls) :
               /\ out.calls[i].words = WordsPassed
               /\ out.calls[i].start <= out.calls[i].end
               /\ out.calls[i].end < 32 * out.calls[i].words
               /\ out.calls[i].end - out.calls[i].start < 64

\* dump_fuse printed every field, one of them 64 bits wide and across two
\* word boundaries.
C18_Witness ==
    /\ out.op = "dump_fuse"
    /\ out.kind = "ok"
    /\ Len(out.calls) = Len(DumpFuseFields)
    /\ \E i \in 1 .. Len(out.calls) :
           /\ out.calls[i].end - out.calls[i].start = 63
           /\ out.calls[i].end \div 32 = out.calls[i].start \div 32 + 2

----------------------------------------------------------------------------
(* Sequences of read4 and write4 on one window: src/src/lib/pci.rs *)

\* A plausible slip: the pointer advanced by `offset` words instead of
\* `offset >> 2`, so that only offset 0 lands on its word.
write4_unshifted(l, m, b, offset, val, ub) ==
    LET p == get_word_ptr(l, b, offset) IN
    IF p.kind # "ok" THEN [kind |-> p.kind, mem |-> m, transfer |-> FALSE]
    ELSE IF InWindow(l, offset)
         THEN [kind |-> "ok", mem |-> [m EXCEPT ![offset] = val],
               transfer |-> TRUE]
         ELSE [kind |-> IF ub.fault THEN "fault" ELSE "ok", mem |-> m,
               transfer |-> TRUE]

\* write4 as a caller that keeps the Pci across calls sees it.
pci_write4(l, m, b, offset, val, ub) == write4(l, m, b, offset, val, ub)

\* The window lengths of the sequences: the longest of Lens, and a longer
\* one that is not a multiple of 4, with three words that read4 and write4
\* accept.
SeqLens == {MaxLen, MaxLen + 5}

\* The word indices that lie, wholly or partly, inside the longest of them.
SeqWords == 0 .. ((MaxLen + 5 + 3) \div 4 - 1)

\* The offsets the calls are made at: every aligned offset of a u32, and the
\* unaligned ones of the first word.
SeqOffsets == {o \in Offsets : o % 4 = 0} \cup {1, 2, 3}

\* A process that holds one Pci and calls read4 and write4 on it one after
\* the other, until a call panics or faults.  Beside the window, inp keeps
\* what the caller expects of it: `expect`, the initial words (all alike)
\* overwritten by the value of every write4 that returned Ok at an aligned
\* offset with offset + 4 <= len, and `written`, the words of those writes.
InitPciSeq ==
    /\ len \in SeqLens
    /\ mem \in {[w \in SeqWords |-> v] : v \in Values}
    /\ build \in Builds
    /\ regmap = StubMap
    /\ inp = [fn |-> "pci_seq", expect |-> mem, written |-> {}]
    /\ out = NoOp

\* Whether the process can make another call.
PciAlive == IF out = NoOp THEN TRUE ELSE out.kind \notin {"panic", "fault"}

SeqRead4 ==
    /\ inp.fn = "pci_seq"
    /\ PciAlive
    /\ \E offset \in SeqOffsets : \E ub \in UbFor(len, build, offset) :
           LET r == read4(len, mem, build, offset, ub) IN
           out' = [op |-> "read4", offset |-> offset, kind |-> r.kind,
                   val |-> r.val, transfer |-> r.transfer, changed |-> {}]
    /\ UNCHANGED <<len, mem, build, regmap, inp>>

SeqWrite4 ==
    /\ inp.fn = "pci_seq"
    /\ PciAlive
    /\ \E offset \in SeqOffsets, val \in Values :
         \E ub \in UbFor(len, build, offset) :
           LET r == pci_write4(len, mem, build, offset, val, ub)
               counted == r.kind = "ok" /\ offset % 4 = 0
                              /\ offset + 4 <= len
           IN  /\ mem' = r.mem
               /\ out' = [op |-> "write4", offset |-> offset,
                          kind |-> r.kind, val |-> val,
                          transfer |-> r.transfer,
                          changed |-> {w \in SeqWords : mem[w] # r.mem[w]}]
               /\ inp' = IF counted
                         THEN [inp EXCEPT
                                  !.expect = [@ EXCEPT ![offset \div 4] = val],
                                  !.written = @ \cup {offset \div 4}]
                         ELSE inp
    /\ UNCHANGED <<len, build, regmap>>

NextPciSeq == SeqRead4 \/ SeqWrite4

SpecPciSeq == InitPciSeq /\ [][NextPciSeq]_vars

\* C19: after any sequence of read4 and write4 calls, the word at every
\* aligned offset o with o + 4 <= len holds the value of the last write4(o, v)
\* that succeeded, or its initial value if there was none; a read4(o) that
\* succeeds there returns that word; read4 changes no word, a failed write4
\* changes none, and a successful write4(o, v) changes at most the word at o.
C19_LastWriteWins ==
    inp.fn = "pci_seq" =>
        /\ \A w \in SeqWords : InWindow(len, w) => mem[w] = inp.expect[w]
        /\ (out.op = "read4" /\ out.kind = "ok" /\ out.offset + 4 <= len)
               => out.val = inp.expect[out.offset \div 4]
        /\ out.op = "read4" => out.changed = {}
        /\ (out.op = "write4" /\ out.kind # "ok") => out.changed = {}
        /\ (out.op = "write4" /\ out.kind = "ok")
               => out.changed \subseteq {out.offset \div 4}

\* A read4 returned the value written to its word earlier, while another
\* word written earlier holds a different value.
C19_Witness ==
    /\ inp.fn = "pci_seq"
    /\ out.op = "read4"
    /\ out.kind = "ok"
    /\ (out.offset \div 4) \in inp.written
    /\ out.val = mem[out.offset \div 4]
    /\ \E w \in inp.written : w # out.offset \div 4 /\ mem[w] # out.val

----------------------------------------------------------------------------
(* read_offset as a function: src/crates/tftool/src/lib.rs *)

\* The memory before read_offset: word w holds (w + 1) mod (MaxVal + 1), or
\* every word holds 0.
ReadMems ==
    {[w \in SeqWords |-> 0], [w \in SeqWords |-> (w + 1) % (MaxVal + 1)]}

InitRead ==
    /\ len \in SeqLens
    /\ mem \in ReadMems
    /\ build \in Builds
    /\ regmap = StubMap
    /\ inp \in [fn : {"read_offset"}, offset : Offsets, cnt : 0 .. MaxCnt]
    /\ out = NoOp

\* One call of read_offset.  ret is the Result returned: the words of Ok, or
\* no words for Err; a panic or a fault returns nothing.
ReadOffset ==
    /\ inp.fn = "read_offset"
    /\ out = NoOp
    /\ \E ub \in UbOutcomes :
           LET r == read_offset(len, mem, build, inp.offset, inp.cnt, ub) IN
           out' = [op |-> "read_offset", kind |-> r.kind, reads |-> r.reads,
                   ret |-> IF r.kind = "ok"
                           THEN [ok |-> TRUE, words |-> r.vals]
                           ELSE [ok |-> FALSE, words |-> <<>>]]
    /\ UNCHANGED <<len, mem, build, regmap, inp>>

NextRead == ReadOffset

SpecRead == InitRead /\ [][NextRead]_vars

\* C20: read_offset(offset, cnt) calls read4 at offset, offset + 4, ... in
\* ascending order; when all cnt reads succeed it returns exactly cnt words,
\* word i read from offset + 4 * i (no word for cnt = 0); at the first read
\* that fails it returns the error of that read, no word, and reads no more.
C20_ReadOffsetInOrder ==
    out.op = "read_offset" =>
        /\ Len(out.reads) <= inp.cnt
        /\ \A i \in 1 .. Len(out.reads) :
               out.reads[i] = inp.offset + 4 * (i - 1)
        /\ out.kind \in {"ok", "unaligned", "outside"}
        /\ out.kind = "ok" =>
               /\ out.ret.ok
               /\ Len(out.reads) = inp.cnt
               /\ Len(out.ret.words) = inp.cnt
               /\ \A i \in 1 .. inp.cnt :
                      InWindow(len, out.reads[i] \div 4)
                          => out.ret.words[i] = mem[out.reads[i] \div 4]
        /\ out.kind # "ok" =>
               /\ ~out.ret.ok
               /\ out.ret.words = <<>>
               /\ Len(out.reads) >= 1
               /\ get_word_ptr(len, build,
                               out.reads[Len(out.reads)]).kind = out.kind
               /\ \A i \in 1 .. (Len(out.reads) - 1) :
                      get_word_ptr(len, build, out.reads[i]).kind = "ok"

----------------------------------------------------------------------------
(* read_dr as a function: src/crates/tftool/src/dr.rs *)

\* The window before read_dr: every word of a ring record holds its word
\* index modulo 97, so that the eleven words of a record differ.
ReadDrMem == [w \in DrWords |-> w % 97]

\* read_dr is called by show and dump only, with an offset of the table.  The
\* window is that of the tool, or one that makes the read of field f fail
\* after those before it succeeded.
InitReadDr ==
    /\ build \in Builds
    /\ regmap = StubMap
    /\ mem = ReadDrMem
    /\ \E k \in 1 .. Len(get_drs) :
           /\ inp = [fn |-> "read_dr", offset |-> get_drs[k].offset]
           /\ len \in {REGISTER_SIZE}
                        \cup {get_drs[k].offset + DrFieldOffsets[f] + 4 :
                                 f \in 1 .. Len(DrFieldOffsets)}
    /\ out = NoOp

\* One call of read_dr.  dr is the Dr returned, its fields in the order of
\* DrFieldNames, or nothing for Err.
ReadDr ==
    /\ inp.fn = "read_dr"
    /\ out = NoOp
    /\ LET r == read_dr(len, mem, inp.offset) IN
       out' = [op |-> "read_dr", kind |-> r.kind, reads |-> r.reads,
               dr |-> IF r.kind = "ok" THEN [some |-> TRUE, v |-> r.vals]
                      ELSE [some |-> FALSE, v |-> <<>>]]
    /\ UNCHANGED <<len, mem, build, regmap, inp>>

NextReadDr == ReadDr

SpecReadDr == InitReadDr /\ [][NextReadDr]_vars

\* The fields of Dr in the order of the struct.
DrStructFields ==
    <<"ctrl", "base_addr_low", "base_addr_high", "limit_addr_low",
      "limit_addr_high", "size", "head_ptr", "tail_ptr", "ring_timeout",
      "data_timeout", "status">>

\* The first field whose read4 fails on the window, 12 if none does.
FirstFailing ==
    LET bad == {f \in 1 .. 11 :
                   pci_read4(len, mem, inp.offset + 4 * (f - 1)).kind # "ok"}
    IN  IF bad = {} THEN 12 ELSE CHOOSE f \in bad : \A g \in bad : f <= g

\* What read_dr has done, whatever the state.
ReadDrDone ==
    out.op = "read_dr" =>
        /\ DrFieldNames = DrStructFields
        /\ \A f \in 1 .. Len(out.reads) :
               out.reads[f] = inp.offset + 4 * (f - 1)
        /\ IF FirstFailing = 12
           THEN /\ out.kind = "ok"
                /\ Len(out.reads) = 11
                /\ out.dr.some
                /\ \A f \in 1 .. 11 :
                       out.dr.v[f] = mem[(inp.offset + 4 * (f - 1)) \div 4]
           ELSE /\ out.kind
                    = pci_read4(len, mem,
                                inp.offset + 4 * (FirstFailing - 1)).kind
                /\ Len(out.reads) = FirstFailing
                /\ ~out.dr.some
                /\ out.dr.v = <<>>

\* C21: read_dr(offset) makes exactly 11 read4 calls, at offset + 0x00,
\* 0x04, ..., 0x28 in ascending order, and assigns the words read in that
\* order to ctrl, base_addr_low, base_addr_high, limit_addr_low,
\* limit_addr_high, size, head_ptr, tail_ptr, ring_timeout, data_timeout and
\* status; it writes nothing; at the first read that fails it returns the
\* error of that read, no record, and reads no more.
C21_ReadDrOrder == [](ReadDrDone) /\ [][mem' = mem]_vars

\* read_dr failed at the read of size, after five reads that succeeded.
C21_Witness ==
    /\ out.op = "read_dr"
    /\ out.kind = "outside"
    /\ Len(out.reads) = 6
    /\ out.reads[6] = inp.offset + 20
    /\ ~out.dr.some

----------------------------------------------------------------------------
(* The fields of Fuse: src/crates/tofino/src/fuse.rs *)

\* The fields of the Fuse struct in the order of their declaration, each with
\* the width its comment documents.
FuseWidths ==
    <<[name |-> "device_id", bits |-> 16],
      [name |-> "version", bits |-> 2],
      [name |-> "freq_dis", bits |-> 1],
      [name |-> "freq_bps", bits |-> 2],
      [name |-> "freq_pps", bits |-> 2],
      [name |-> "pcie_dis", bits |-> 2],
      [name |-> "cpu_speed_dis", bits |-> 2],
      [name |-> "speed_dis", bits |-> 64],
      [name |-> "port_dis", bits |-> 40],
      [name |-> "pipe_dis", bits |-> 4],
      [name |-> "pipe0_mau_dis", bits |-> 21],
      [name |-> "pipe1_mau_dis", bits |-> 21],
      [name |-> "pipe2_mau_dis", bits |-> 21],
      [name |-> "pipe3_mau_dis", bits |-> 21],
      [name |-> "tm_mem_dis", bits |-> 32],
      [name |-> "bsync_dis", bits |-> 1],
      [name |-> "pgen_dis", bits |-> 1],
      [name |-> "resub_dis", bits |-> 1],
      [name |-> "voltage_scaling", bits |-> 12],
      [name |-> "rsvd_22", bits |-> 22],
      [name |-> "part_num", bits |-> 13],
      [name |-> "rev_num", bits |-> 8],
      [name |-> "pkg_id", bits |-> 2],
      [name |-> "silent_spin", bits |-> 2],
      [name |-> "chip_id", bits |-> 63],
      [name |-> "pmro_and_skew", bits |-> 12],
      [name |-> "wf_core_repair", bits |-> 1],
      [name |-> "core_repair", bits |-> 1],
      [name |-> "tile_repair", bits |-> 1],
      [name |-> "freq_bps_2", bits |-> 4],
      [name |-> "freq_pps_2", bits |-> 4],
      [name |-> "die_rotation", bits |-> 1],
      [name |-> "soft_pipe_dis", bits |-> 4]>>

\* Whether the u64 of limbs v is less than 2^w.
BelowPow2(v, w) ==
    \A i \in 1 .. 4 :
        IF 16 * i <= w THEN TRUE
        ELSE IF 16 * (i - 1) >= w THEN v[i] = 0
        ELSE v[i] < 2 ^ (w - 16 * (i - 1))

\* C22: for every list of 16 words, each field of the Fuse try_from_slice
\* returns is less than 2^w, w being the width the Fuse struct documents for
\* the field of that name.
C22_FieldWidths ==
    (out.op = "try_from_slice" /\ out.kind = "ok") =>
        /\ Len(FuseWidths) = Len(FuseFields)
        /\ \A i \in 1 .. Len(FuseFields) :
               /\ FuseWidths[i].name = FuseFields[i].name
               /\ BelowPow2(out.fuse[i], FuseWidths[i].bits)

----------------------------------------------------------------------------
(* The keys of the descriptor-ring table: src/crates/tftool/src/dr.rs *)

\* The name fm_pkt_i.
FmPkt(i) == <<"f", "m", "_", "p", "k", "t", "_">> \o Dec(i)

\* C24: each of the names fm_pkt_0 .. fm_pkt_7 is a key of the table, at
\* offset 0x300400 + 0x34 * i for fm_pkt_i, so that show accepts it and reads
\* the ring there; and no key of the table list prints contains a blank.
C24_FmPktKeys ==
    /\ out.op = "dr_list" =>
           /\ \A i \in 0 .. 7 :
                  \E r \in 1 .. Len(out.rows) :
                      /\ out.rows[r].name = FmPkt(i)
                      /\ out.rows[r].offset = 3146752 + 52 * i
           /\ \A r \in 1 .. Len(out.rows) :
                  \A c \in 1 .. Len(out.rows[r].name) :
                      out.rows[r].name[c] # " "
    /\ (out.op = "dr_show" /\ \E i \in 0 .. 7 : out.dr = FmPkt(i)) =>
           /\ out.found
           /\ out.kind # "no_such_dr"
           /\ \E i \in 0 .. 7 :
                  out.dr = FmPkt(i) /\ out.offset = 3146752 + 52 * i

----------------------------------------------------------------------------
(* The layout of the fuse data: src/crates/tofino/src/fuse.rs *)

\* The fields of the Fuse returned that are not 0.
NonZeroFields ==
    {i \in 1 .. Len(out.fuse) : out.fuse[i] # <<0, 0, 0, 0>>}

----------------------------------------------------------------------------
(* The ring records in the window: src/crates/tftool/src/dr.rs *)

\* The entries of the table whose offset is the one read_dr was called with.
RingsRead == {k \in 1 .. Len(get_drs) : get_drs[k].offset = inp.offset}

\* C26: on the 72 MiB window read_dr on an entry of the ring table never
\* fails: its 11 field offsets base + 0x00 .. 0x28 are multiples of 4 and
\* pass the bounds check of the window; and the 0x2c bytes of the record
\* read, which hold all 11 words, share no byte with the record of any other
\* ring of the table.
C26_RecordsAlignedApart ==
    (out.op = "read_dr" /\ len = 72 * 1024 * 1024) =>
        /\ REGISTER_SIZE = len
        /\ out.kind = "ok"
        /\ Len(out.reads) = 11
        /\ \A f \in 1 .. 11 :
               /\ out.reads[f] % 4 = 0
               /\ ~(out.reads[f] + 4 >= len)
               /\ inp.offset <= out.reads[f]
               /\ out.reads[f] + 4 <= inp.offset + 44
        /\ Cardinality(RingsRead) = 1
        /\ \A k \in (1 .. Len(get_drs)) \ RingsRead :
               \/ get_drs[k].offset + 44 <= inp.offset
               \/ inp.offset + 44 <= get_drs[k].offset

\* The record of the ring highest in the window, 0x30076c, read whole; the
\* ring before it in the window lies 0x34 bytes below.
C26_Witness ==
    /\ out.op = "read_dr"
    /\ len = 72 * 1024 * 1024
    /\ out.kind = "ok"
    /\ inp.offset = 3147628
    /\ out.reads[11] = 3147668
    /\ \E k \in 1 .. Len(get_drs) : get_drs[k].offset = 3147628 - 52

====
